---------------------------- MODULE Spec2Model ----------------------------
(***************************************************************************)
(* Model of skillspec's Document Reconciler (preservation.py), of the      *)
(* `generate` command that drives it (cli.py), of the decision-rule        *)
(* normalizer (models.py, DecisionRules.extract_rules) and of the schema   *)
(* and quality validators (validator/schema.py, validator/quality.py,      *)
(* with the typed model SkillSpec of models.py).                           *)
(*                                                                         *)
(* Text is a sequence of tokens.  A token is one character (" ", "\n",     *)
(* "a", "b") or one of the literal strings the code searches for, kept     *)
(* atomic: the four block markers and the front-matter fence "---".        *)
(***************************************************************************)
EXTENDS Integers, Sequences, FiniteSets, TLC

\* ------------------------------------------------------------------------
\* Bounds of the model
\* ------------------------------------------------------------------------
MaxDocLines == 3

MaxGenLines == 2

MaxFileLen == 24

MaxRules == 3

MaxPasses == 2

\* rules, steps and edge cases a section of a spec document lists
MaxItems == 2

\* lines of a document parsed statement by statement
MaxParseLines == 4

\* blocks a SKILL.md checked for consistency is made of
MaxBlocks == 3

\* lines of a document a manual section is inserted into
MaxInsertLines == 4

\* days the lifecycle commands are spread over
MaxDays == 2

\* validate calls made one after the other on the same document
MaxRuns == 4

\* findings added to one result
MaxFindings == 3

\* ------------------------------------------------------------------------
\* Tokens
\* ------------------------------------------------------------------------
NL == "\n"

SP == " "

GENERATED_START == "<!-- skillspec:generated:start -->"

GENERATED_END == "<!-- skillspec:generated:end -->"

MANUAL_START == "<!-- skillspec:manual:start -->"

MANUAL_END == "<!-- skillspec:manual:end -->"

FENCE == "---"

Markers == {GENERATED_START, GENERATED_END, MANUAL_START, MANUAL_END}

\* str.strip() and the regex class \s remove/match whitespace characters.
IsSpace(c) == c \in {SP, NL}

\* ------------------------------------------------------------------------
\* String primitives (Python str methods used by preservation.py)
\* ------------------------------------------------------------------------
\* `tok in s`
Contains(s, tok) == \E i \in 1..Len(s) : s[i] = tok

\* s[i:j] with 1-based inclusive bounds; empty when i > j
Slice(s, i, j) == IF i > j THEN <<>> ELSE SubSeq(s, i, j)

\* s.count(tok)
Count(s, tok) == Cardinality({i \in 1..Len(s) : s[i] = tok})

\* s.strip(): what lies between the first and the last character that is
\* no whitespace
Strip(s) ==
    LET ks == {k \in 1..Len(s) : ~IsSpace(s[k])}
    IN  IF ks = {} THEN <<>>
        ELSE Slice(s, CHOOSE k \in ks : \A m \in ks : k <= m,
                   CHOOSE k \in ks : \A m \in ks : k >= m)

\* s.split('\n'): the list of lines; '' splits into ['']
RECURSIVE SplitFrom(_, _, _)
SplitFrom(s, i, cur) ==
    IF i > Len(s) THEN <<cur>>
    ELSE IF s[i] = NL THEN <<cur>> \o SplitFrom(s, i + 1, <<>>)
    ELSE SplitFrom(s, i + 1, Append(cur, s[i]))

SplitLines(s) == SplitFrom(s, 1, <<>>)

\* '\n'.join(lines)
RECURSIVE JoinLines(_)
JoinLines(lines) ==
    IF Len(lines) = 0 THEN <<>>
    ELSE IF Len(lines) = 1 THEN lines[1]
    ELSE lines[1] \o <<NL>> \o JoinLines(Tail(lines))

\* line.startswith(prefix) for a one-token prefix
StartsWith(line, tok) == Len(line) >= 1 /\ line[1] = tok


\* ------------------------------------------------------------------------
\* Front matter: re.compile(r'^(---\s*\n.*?\n---\s*\n)', re.DOTALL).match
\* ------------------------------------------------------------------------
\* number of whitespace tokens starting at position i
RECURSIVE WsRun(_, _)
WsRun(s, i) == IF i <= Len(s) /\ IsSpace(s[i]) THEN 1 + WsRun(s, i + 1) ELSE 0

\* greedy `\s*\n` starting at position i: the numbers of tokens \s* may take
WsThenNL(s, i) == {m \in 0..WsRun(s, i) : i + m <= Len(s) /\ s[i + m] = NL}

SetMax(S) == CHOOSE x \in S : \A y \in S : x >= y

SetMin(S) == CHOOSE x \in S : \A y \in S : x <= y

\* frontmatter_match.end() as a count of tokens, 0 when there is no match.
\* Backtracking order: first \s* longest first, .*? shortest first, last \s*
\* longest first.
FrontmatterEnd(s) ==
    IF ~StartsWith(s, FENCE) THEN 0
    ELSE LET \* `\n---\s*\n` matches at position q
             ClosingFenceAt(q) ==
                 /\ q + 1 <= Len(s)
                 /\ s[q] = NL
                 /\ s[q + 1] = FENCE
                 /\ WsThenNL(s, q + 2) # {}
             closings(k) == {q \in (3 + k)..Len(s) : ClosingFenceAt(q)}
             ks == {k \in WsThenNL(s, 2) : closings(k) # {}}
         IN  IF ks = {} THEN 0
             ELSE LET q == SetMin(closings(SetMax(ks)))
                  IN  q + 2 + SetMax(WsThenNL(s, q + 2))

\* ------------------------------------------------------------------------
\* parse_skill_md
\* ------------------------------------------------------------------------
GENERATED == "generated"

MANUAL == "manual"

UNMARKED == "unmarked"

\* section_name = None
NoSection == <<"None">>

ContentBlock(type, lines, section) ==
    [block_type |-> type, content |-> JoinLines(lines), section_name |-> section]

\* the line-by-line loop: i is the line index, cur the accumulated lines,
\* type the open block type, section the last heading seen
RECURSIVE ParseLoop(_, _, _, _, _, _)
ParseLoop(lines, i, blocks, cur, type, section) ==
    IF i > Len(lines)
    THEN IF Len(cur) > 0
         THEN Append(blocks, ContentBlock(type, cur, section))
         ELSE blocks
    ELSE LET line == lines[i]
             flushed == IF Len(cur) > 0
                        THEN Append(blocks, ContentBlock(type, cur, section))
                        ELSE blocks
         IN  IF Contains(line, GENERATED_START)
             THEN ParseLoop(lines, i + 1, flushed, <<>>, GENERATED, section)
             ELSE IF Contains(line, MANUAL_START)
             THEN ParseLoop(lines, i + 1, flushed, <<>>, MANUAL, section)
             ELSE IF Contains(line, GENERATED_END) \/ Contains(line, MANUAL_END)
             THEN ParseLoop(lines, i + 1,
                            Append(blocks, ContentBlock(type, cur, section)),
                            <<>>, UNMARKED, section)
             ELSE LET sec == IF StartsWith(line, "## ") THEN Strip(Tail(line))
                             ELSE IF StartsWith(line, "# ") THEN Strip(Tail(line))
                             ELSE section
                  IN  ParseLoop(lines, i + 1, blocks, Append(cur, line), type, sec)

\* ParsedDocument
parse_skill_md(content) ==
    \* `GENERATED_START in content or MANUAL_START in content`
    IF ~(Contains(content, GENERATED_START) \/ Contains(content, MANUAL_START))
    THEN [blocks |-> <<[block_type |-> UNMARKED, content |-> content,
                        section_name |-> NoSection]>>,
          has_markers |-> FALSE]
    ELSE [blocks |-> ParseLoop(SplitLines(content), 1, <<>>, <<>>, UNMARKED, NoSection),
          has_markers |-> TRUE]

\* [b for b in blocks if b.block_type == type]
BlocksOfType(blocks, type) == SelectSeq(blocks, LAMBDA b : b.block_type = type)

get_manual_blocks(doc) == BlocksOfType(doc.blocks, MANUAL)

get_generated_blocks(doc) == BlocksOfType(doc.blocks, GENERATED)

\* ------------------------------------------------------------------------
\* wrap_generated_block / merge_with_preservation
\* ------------------------------------------------------------------------
wrap_generated_block(content) ==
    LET e == FrontmatterEnd(content)
    IN  Slice(content, 1, e) \o <<GENERATED_START, NL>>
            \o Slice(content, e + 1, Len(content)) \o <<NL, GENERATED_END>>

WarnForce == "Force mode: all existing content replaced"

WarnNoMarkers == "No markers found in existing content - wrapped new content in generated markers"

\* the lines appended for the preserved manual blocks, contents verbatim
RECURSIVE ManualLinesVerbatim(_)
ManualLinesVerbatim(manual_blocks) ==
    IF Len(manual_blocks) = 0 THEN <<>>
    ELSE << <<>>, <<MANUAL_START>>, manual_blocks[1].content, <<MANUAL_END>> >>
            \o ManualLinesVerbatim(Tail(manual_blocks))

\* the lines appended for the preserved manual blocks
RECURSIVE ManualLines(_)
ManualLines(manual_blocks) ==
    IF Len(manual_blocks) = 0 THEN <<>>
    ELSE << <<>>, <<MANUAL_START>>, Strip(manual_blocks[1].content), <<MANUAL_END>> >>
            \o ManualLines(Tail(manual_blocks))

\* the lines of the generated part, front matter kept outside the markers
GeneratedLines(new_generated_content) ==
    LET e == FrontmatterEnd(new_generated_content)
    IN  IF e > 0
        THEN << Strip(Slice(new_generated_content, 1, e)),
                <<>>,
                <<GENERATED_START>>,
                Strip(Slice(new_generated_content, e + 1, Len(new_generated_content))),
                <<GENERATED_END>> >>
        ELSE << <<GENERATED_START>>, Strip(new_generated_content), <<GENERATED_END>> >>

\* adoption built like the marker branch: content stripped before wrapping
AdoptResultStripped(new_generated_content) ==
    [success |-> TRUE,
     merged_content |-> JoinLines(GeneratedLines(new_generated_content)),
     manual_blocks_preserved |-> 0, generated_blocks_updated |-> 0,
     warnings |-> <<WarnNoMarkers>>, errors |-> <<>>]

\* no markers in the existing content: wrap the new content
AdoptResult(new_generated_content) ==
    [success |-> TRUE,
     merged_content |-> wrap_generated_block(new_generated_content),
     manual_blocks_preserved |-> 0, generated_blocks_updated |-> 0,
     warnings |-> <<WarnNoMarkers>>, errors |-> <<>>]

\* markers in the existing content: one generated block, then the manual
\* blocks of the existing document
PreserveResult(existing_doc, new_generated_content) ==
    LET manual_blocks == get_manual_blocks(existing_doc)
    IN  [success |-> TRUE,
         merged_content |->
             JoinLines(GeneratedLines(new_generated_content)
                       \o ManualLines(manual_blocks)),
         manual_blocks_preserved |-> Len(manual_blocks),
         generated_blocks_updated |-> 1,
         warnings |-> <<>>, errors |-> <<>>]

\* the merge with the force flag never consulted
merge_ignoring_force(existing_content, new_generated_content, force) ==
    LET existing_doc == parse_skill_md(existing_content)
    IN  IF ~existing_doc.has_markers
        THEN AdoptResult(new_generated_content)
        ELSE PreserveResult(existing_doc, new_generated_content)

\* PreservationResult
merge_with_preservation(existing_content, new_generated_content, force) ==
    IF force
    THEN \* force mode: the new content, unwrapped, and a warning
         [success |-> TRUE, merged_content |-> new_generated_content,
          manual_blocks_preserved |-> 0, generated_blocks_updated |-> 0,
          warnings |-> <<WarnForce>>, errors |-> <<>>]
    ELSE LET existing_doc == parse_skill_md(existing_content)
         IN  IF ~existing_doc.has_markers
             THEN AdoptResult(new_generated_content)
             ELSE PreserveResult(existing_doc, new_generated_content)

\* ------------------------------------------------------------------------
\* wrap_manual_block / insert_manual_section
\* ------------------------------------------------------------------------
wrap_manual_block(content) == <<MANUAL_START, NL>> \o content \o <<NL, MANUAL_END>>

\* insert_manual_section; after_section is <<>> when it is None or ""
insert_manual_section(content, manual_content, after_section) ==
    IF after_section # <<>>
    THEN LET lines == SplitLines(content)
             \* line.startswith(f'## {after_section}')
             Heads(line) ==
                 /\ Len(line) >= 1 + Len(after_section)
                 /\ line[1] = "## "
                 /\ SubSeq(line, 2, 1 + Len(after_section)) = after_section
             found == {i \in 1..Len(lines) : Heads(lines[i])}
             \* the headings after the first such line
             later == {j \in (SetMin(found) + 1)..Len(lines) :
                          StartsWith(lines[j], "## ") \/ StartsWith(lines[j], "# ")}
             \* the number of lines before the insertion point
             insert_idx == IF found = {} \/ later = {} THEN Len(lines)
                           ELSE SetMin(later) - 1
             manual_block == <<<<>>, <<MANUAL_START>>, Strip(manual_content),
                               <<MANUAL_END>>, <<>>>>
         IN  JoinLines(SubSeq(lines, 1, insert_idx) \o manual_block
                           \o SubSeq(lines, insert_idx + 1, Len(lines)))
    \* content.rstrip() + '\n\n' + wrap_manual_block(manual_content) + '\n'
    ELSE LET ks == {k \in 1..Len(content) : ~IsSpace(content[k])}
             rstripped == IF ks = {} THEN <<>> ELSE Slice(content, 1, SetMax(ks))
         IN  rstripped \o <<NL, NL>> \o wrap_manual_block(manual_content) \o <<NL>>

\* ------------------------------------------------------------------------
\* Parsed YAML values: str, None, list, dict (a dict keeps insertion order)
\* ------------------------------------------------------------------------
PyStr(str) == [t |-> "str", s |-> str, items |-> <<>>, pairs |-> <<>>]

PyNone == [t |-> "none", s |-> "", items |-> <<>>, pairs |-> <<>>]

PyList(items) == [t |-> "list", s |-> "", items |-> items, pairs |-> <<>>]

PyDict(pairs) == [t |-> "dict", s |-> "", items |-> <<>>, pairs |-> pairs]

Pair(key, value) == [k |-> key, v |-> value]

\* isinstance(v, dict) / isinstance(v, list)
IsDict(v) == v.t = "dict"

IsList(v) == v.t = "list"

\* `key in d`
HasKey(d, key) == \E i \in 1..Len(d.pairs) : d.pairs[i].k = key

\* d[key]
DictItem(d, key) == d.pairs[CHOOSE i \in 1..Len(d.pairs) : d.pairs[i].k = key].v

\* d.get(key, default)
DictGet(d, key, default) == IF HasKey(d, key) THEN DictItem(d, key) ELSE default

\* {**d, key: value}
DictWith(d, key, value) ==
    IF HasKey(d, key)
    THEN PyDict([i \in 1..Len(d.pairs) |->
                    IF d.pairs[i].k = key THEN Pair(key, value) ELSE d.pairs[i]])
    ELSE PyDict(Append(d.pairs, Pair(key, value)))

\* ------------------------------------------------------------------------
\* DecisionRules.extract_rules
\* ------------------------------------------------------------------------
\* f"rule_{n}"
RuleId(n) == "rule_" \o ToString(n)

\* ensure_rule_ids numbering the rules from 1
ensure_rule_ids_from_one(rules_list, start_index) ==
    [i \in 1..Len(rules_list) |->
        LET rule == rules_list[i]
        IN  IF IsDict(rule) /\ ~HasKey(rule, "id")
            THEN DictWith(rule, "id", PyStr(RuleId(start_index + i)))
            ELSE rule]

\* ensure_rule_ids: enumerate() counts from 0, sequences from 1
ensure_rule_ids(rules_list, start_index) ==
    [i \in 1..Len(rules_list) |->
        LET rule == rules_list[i]
        IN  IF IsDict(rule) /\ ~HasKey(rule, "id")
            THEN DictWith(rule, "id", PyStr(RuleId(start_index + (i - 1))))
            ELSE rule]

\* Format 2: the loop over values.items()
RECURSIVE KeyedRules(_)
KeyedRules(pairs) ==
    IF Len(pairs) = 0 THEN <<>>
    ELSE LET key == pairs[1].k
             value == pairs[1].v
             rest == KeyedRules(Tail(pairs))
         IN  IF key = "_config" THEN rest
             ELSE IF IsDict(value)
             THEN <<IF ~HasKey(value, "id")
                    THEN DictWith(value, "id", PyStr(key))
                    ELSE value>> \o rest
             ELSE rest

Normalized(config, rules) == PyDict(<<Pair("_config", config), Pair("rules", rules)>>)

\* extract_rules without Format 1: every dict is read as the keyed format
extract_rules_keyed_only(values) ==
    IF IsDict(values)
    THEN Normalized(DictGet(values, "_config", PyDict(<<>>)),
                    PyList(KeyedRules(values.pairs)))
    ELSE IF IsList(values)
    THEN Normalized(PyDict(<<>>), PyList(ensure_rule_ids(values.items, 0)))
    ELSE values

extract_rules(values) ==
    IF IsDict(values)
    THEN LET config == DictGet(values, "_config", PyDict(<<>>))
         IN  IF HasKey(values, "rules")
             THEN LET rules == DictItem(values, "rules")
                  IN  Normalized(config,
                                 IF IsList(rules)
                                 THEN PyList(ensure_rule_ids(rules.items, 0))
                                 ELSE rules)
             ELSE Normalized(config, PyList(KeyedRules(values.pairs)))
    ELSE IF IsList(values)
    THEN Normalized(PyDict(<<>>), PyList(ensure_rule_ids(values.items, 0)))
    ELSE values

\* ------------------------------------------------------------------------
\* validate_document_consistency
\* ------------------------------------------------------------------------
\* the characters of a text: a heading token "## " or "# " ends in a space
RECURSIVE Chars(_)
Chars(s) ==
    IF s = <<>> THEN <<>>
    ELSE (CASE Head(s) = "## " -> <<"##", SP>>
            [] Head(s) = "# " -> <<"#", SP>>
            [] OTHER -> <<Head(s)>>) \o Chars(Tail(s))

\* the comparison without whitespace normalization
validate_generated_block_exact(generated_block, spec_generated) ==
    [is_consistent |-> generated_block.content = spec_generated,
     diff |-> "Content differs"]

\* (is_consistent, difference_description); the description is "" for None
validate_generated_block_consistency(generated_block, spec_generated) ==
    LET \* ' '.join(s.split()): the words of s, one space between them
        NormalizeSpace(s) ==
            LET c == Chars(s)
                norm[i \in 0..Len(c)] ==
                    IF i = 0 THEN <<>>
                    ELSE IF IsSpace(c[i]) THEN norm[i - 1]
                    ELSE IF norm[i - 1] # <<>> /\ IsSpace(c[i - 1])
                    THEN norm[i - 1] \o <<SP, c[i]>>
                    ELSE Append(norm[i - 1], c[i])
            IN  norm[Len(c)]
        \* set(s.strip().split('\n'))
        LineSet(s) ==
            LET lines == SplitLines(Strip(Chars(s)))
            IN  {lines[i] : i \in 1..Len(lines)}
    IN
    IF NormalizeSpace(generated_block.content) = NormalizeSpace(spec_generated)
    THEN [is_consistent |-> TRUE, diff |-> ""]
    ELSE LET existing_lines == LineSet(generated_block.content)
             spec_lines == LineSet(spec_generated)
             added == spec_lines \ existing_lines
             removed == existing_lines \ spec_lines
             of_added == "Lines added from spec: " \o ToString(Cardinality(added))
             of_removed == "Lines removed from existing: "
                               \o ToString(Cardinality(removed))
         IN  [is_consistent |-> FALSE,
              diff |-> IF added # {} /\ removed # {}
                       THEN of_added \o "; " \o of_removed
                       ELSE IF added # {} THEN of_added
                       ELSE IF removed # {} THEN of_removed
                       ELSE "Content differs"]

\* ConsistencyValidationResult(valid=True)
NewConsistencyResult ==
    [valid |-> TRUE, blocks_checked |-> 0, inconsistencies |-> <<>>]

\* ConsistencyValidationResult
validate_document_consistency(skill_md_content, spec_generated_content) ==
    LET generated_blocks == get_generated_blocks(parse_skill_md(skill_md_content))
        checks == [i \in 1..Len(generated_blocks) |->
                      validate_generated_block_consistency(
                          generated_blocks[i], spec_generated_content)]
        failed == {i \in 1..Len(generated_blocks) : ~checks[i].is_consistent}
        entries[i \in 0..Len(generated_blocks)] ==
            IF i = 0 THEN <<>>
            ELSE IF i \in failed
            THEN Append(entries[i - 1],
                        "Generated block " \o ToString(i) \o ": " \o checks[i].diff)
            ELSE entries[i - 1]
    IN  [valid |-> failed = {},
         blocks_checked |-> Len(generated_blocks),
         inconsistencies |-> entries[Len(generated_blocks)]]

\* ------------------------------------------------------------------------
\* Input spaces
\* ------------------------------------------------------------------------
\* all sequences over S of length 0..n
RECURSIVE SeqsUpTo(_, _)
SeqsUpTo(S, n) ==
    IF n = 0 THEN {<<>>}
    ELSE LET shorter == SeqsUpTo(S, n - 1)
         IN  shorter \cup {Append(q, x) : q \in shorter, x \in S}

\* lines a hand-edited SKILL.md is made of: blank, indented text and the
\* four marker lines
DocLineSet ==
    { <<>>, <<SP, "a">>,
      <<GENERATED_START>>, <<GENERATED_END>>, <<MANUAL_START>>, <<MANUAL_END>> }

\* previous documents: 1..MaxDocLines lines joined by newlines
DocSet == {JoinLines(ls) : ls \in SeqsUpTo(DocLineSet, MaxDocLines) \ {<<>>}}

\* lines of freshly generated content: blank, text, and text that quotes a
\* manual-start marker (spec fields are rendered verbatim)
GenLineSet == { <<>>, <<"b">>, <<MANUAL_START>> }

\* the front matter the renderer emits: "---", fields, "---", blank line
FrontMatterText == <<FENCE, NL, "t", NL, FENCE, NL, NL>>

\* fresh content: a body of 1..MaxGenLines lines, with or without front matter
GenSet ==
    LET bodies == {JoinLines(ls) : ls \in SeqsUpTo(GenLineSet, MaxGenLines) \ {<<>>}}
    IN  bodies \cup {FrontMatterText \o b : b \in bodies}

\* lines of the documents parsed statement by statement: blank, text, a
\* heading, the four marker lines, a manual block on one line, an end and a
\* start marker on one line
ParseLineSet ==
    { <<>>, <<"a">>, <<"## ", "h">>,
      <<GENERATED_START>>, <<GENERATED_END>>, <<MANUAL_START>>, <<MANUAL_END>>,
      <<MANUAL_START, SP, "a", SP, MANUAL_END>>,
      <<GENERATED_END, GENERATED_START>> }

\* documents of 1..MaxParseLines such lines
ParseDocSet ==
    {JoinLines(ls) : ls \in SeqsUpTo(ParseLineSet, MaxParseLines) \ {<<>>}}

\* fresh content of the documents checked for consistency: one or two
\* lines, a quoted manual-start marker, with or without front matter
FreshSet ==
    LET bodies == {<<"b">>, <<"b", NL, "b">>, <<"b", NL, MANUAL_START>>}
    IN  bodies \cup {FrontMatterText \o b : b \in bodies}

\* the same text with other whitespace: every line indented, a blank line
\* after each
Respaced(text) ==
    LET lines == SplitLines(text)
    IN  JoinLines([i \in 1..2 * Len(lines) |->
                      IF i % 2 = 1 THEN <<SP>> \o lines[(i + 1) \div 2] ELSE <<>>])

\* the parts a SKILL.md about fresh content g is made of, as lines: a
\* generated block holding g, g in other whitespace or other text, a manual
\* block, an unclosed manual block, unmarked text
BlockSet(g) ==
    { <<<<GENERATED_START>>, g, <<GENERATED_END>>>>,
      <<<<GENERATED_START>>, Respaced(g), <<GENERATED_END>>>>,
      <<<<GENERATED_START>>, <<"a">>, <<GENERATED_END>>>>,
      <<<<MANUAL_START>>, <<SP, "a">>, <<MANUAL_END>>>>,
      <<<<MANUAL_START>>, <<"b">>>>,
      <<<<"a">>>> }

\* documents of 1..MaxBlocks such parts
BlockDocSet(g) ==
    LET RECURSIVE Flat(_)
        Flat(parts) == IF parts = <<>> THEN <<>>
                       ELSE Head(parts) \o Flat(Tail(parts))
    IN  {JoinLines(Flat(parts)) :
            parts \in SeqsUpTo(BlockSet(g), MaxBlocks) \ {<<>>}}

\* ids a rule may carry explicitly; "rule_1" is also an id the normalizer
\* generates
ExplicitIds == {"a", "rule_1"}

\* rule objects: an optional id, and a condition that tells rules apart
RuleObjects ==
    {PyDict(idpart \o <<Pair("when", PyStr(w))>>) :
        idpart \in {<<>>} \cup {<<Pair("id", PyStr(id))>> : id \in ExplicitIds},
        w \in {"x", "y"}}

\* entries of a rule collection: rule objects and one entry that is no object
RuleEntries == RuleObjects \cup {PyStr("oops")}

ConfigObject == PyDict(<<Pair("match_strategy", PyStr("first_match"))>>)

\* Format 3: bare lists
BareLists == {PyList(l) : l \in SeqsUpTo(RuleEntries, MaxRules)}

\* Format 1: {rules: [...]} with or without _config, and rules: null
CanonicalDicts ==
    {PyDict(cfg \o <<Pair("rules", r)>>) :
        cfg \in {<<>>, <<Pair("_config", ConfigObject)>>},
        r \in BareLists \cup {PyNone}}

\* Format 2: up to MaxRules entries under distinct keys, _config among them
KeyedKeys == {"_config", "a", "b"}

KeyedValues(key) == IF key = "_config" THEN {ConfigObject} ELSE RuleEntries

\* pairs one key longer than q
KeyedExtensions(q) ==
    UNION {{Append(q, Pair(key, v)) : v \in KeyedValues(key)} :
              key \in {k \in KeyedKeys : \A i \in 1..Len(q) : q[i].k # k}}

RECURSIVE KeyedPairs(_)
KeyedPairs(n) ==
    IF n = 0 THEN {<<>>}
    ELSE LET shorter == KeyedPairs(n - 1)
         IN  shorter \cup UNION {KeyedExtensions(q) : q \in shorter}

KeyedDicts == {PyDict(ps) : ps \in KeyedPairs(MaxRules)}

\* decision_rules values a spec document can hold
RawRulesSet == BareLists \cup CanonicalDicts \cup KeyedDicts \cup {PyStr("oops")}

\* ------------------------------------------------------------------------
\* Validation results (validator/schema.py, validator/quality.py)
\* ------------------------------------------------------------------------
\* Optional[str]: None is the empty sequence, a string s is <<s>>
NoSuggestion == <<>>

Suggestion(s) == <<s>>

SchemaError(path, message, suggestion) ==
    [path |-> path, message |-> message, suggestion |-> suggestion]

\* SchemaValidationResult(valid=True)
NewSchemaResult == [valid |-> TRUE, errors |-> <<>>, warnings |-> <<>>]

add_error(result, path, message, suggestion) ==
    [result EXCEPT !.errors = Append(@, SchemaError(path, message, suggestion)),
                   !.valid = FALSE]

add_warning(result, path, message, suggestion) ==
    [result EXCEPT !.warnings = Append(@, SchemaError(path, message, suggestion))]

\* matched_text is text: a sequence of characters, or one atomic token for
\* the fixed strings "<missing>", "<empty>", "<no type>" and type names
PatternViolation(path, pattern, matched_text, category, severity, fix) ==
    [path |-> path, pattern |-> pattern, matched_text |-> matched_text,
     category |-> category, severity |-> severity, fix_suggestion |-> fix]

\* QualityValidationResult(valid=True); category_counts is a dict: a function
\* on the categories seen so far
NewQualityResult ==
    [valid |-> TRUE, violations |-> <<>>, category_counts |-> [c \in {} |-> 0],
     total_errors |-> 0, total_warnings |-> 0, total_info |-> 0]

\* category_counts[c] = category_counts.get(c, 0) + 1
CountCategory(counts, category) ==
    [c \in DOMAIN counts \cup {category} |->
        IF c = category
        THEN (IF category \in DOMAIN counts THEN counts[category] ELSE 0) + 1
        ELSE counts[c]]

\* add_violation that lets a warning flip valid as an error does
add_violation_warning_flips(result, violation) ==
    [result EXCEPT
        !.violations = Append(@, violation),
        !.category_counts = CountCategory(@, violation.category),
        !.total_errors = IF violation.severity = "error" THEN @ + 1 ELSE @,
        !.valid = IF violation.severity \in {"error", "warning"} THEN FALSE ELSE @,
        !.total_warnings = IF violation.severity = "warning" THEN @ + 1 ELSE @,
        !.total_info = IF violation.severity = "info" THEN @ + 1 ELSE @]

add_violation(result, violation) ==
    [result EXCEPT
        !.violations = Append(@, violation),
        !.category_counts = CountCategory(@, violation.category),
        !.total_errors = IF violation.severity = "error" THEN @ + 1 ELSE @,
        !.valid = IF violation.severity = "error" THEN FALSE ELSE @,
        !.total_warnings = IF violation.severity = "warning" THEN @ + 1 ELSE @,
        !.total_info = IF violation.severity = "info" THEN @ + 1 ELSE @]

\* ------------------------------------------------------------------------
\* Pattern scan (validator/quality.py)
\* ------------------------------------------------------------------------
\* Scanned text is a sequence of characters.  Three of them are written by
\* code point: the backtick U+0060, U+0130 (capital I with dot above, the one character whose
\* str.lower() is two characters) and U+0307 (combining dot above).
BACKTICK == "U+0060"

DOTTED_I == "U+0130"

\* the regex assertion \b inside a pattern
WORD_BOUNDARY == "\\b"

\* the case folding re.IGNORECASE compares with: one character to one
FoldChar(c) ==
    LET Uppers ==
            <<"A", "B", "C", "D", "E", "F", "G", "H", "I", "J", "K", "L", "M",
              "N", "O", "P", "Q", "R", "S", "T", "U", "V", "W", "X", "Y", "Z">>
        Lowers ==
            <<"a", "b", "c", "d", "e", "f", "g", "h", "i", "j", "k", "l", "m",
              "n", "o", "p", "q", "r", "s", "t", "u", "v", "w", "x", "y", "z">>
    IN  IF \E i \in 1..Len(Uppers) : Uppers[i] = c
        THEN Lowers[CHOOSE i \in 1..Len(Uppers) : Uppers[i] = c]
        ELSE IF c = DOTTED_I THEN "i"
        ELSE c

\* text.lower(): the full case mapping, which differs from the folding on
\* U+0130 alone among the characters of the model
RECURSIVE str_lower(_)
str_lower(text) ==
    LET LowerChar(c) ==
            \* U+0130 lowers to "i" and U+0307
            IF c = DOTTED_I THEN <<"i", "U+0307">> ELSE <<FoldChar(c)>>
    IN  IF text = <<>> THEN <<>>
        ELSE LowerChar(Head(text)) \o str_lower(Tail(text))

\* text[i:j] as Python clamps it; i, j count from 0
PySlice(text, i, j) ==
    LET hi == IF j > Len(text) THEN Len(text) ELSE j
    IN  IF i >= hi THEN <<>> ELSE SubSeq(text, i + 1, hi)

\* sub occurs in text at offset i (from 0)
OccursAt(text, sub, i) ==
    /\ i + Len(sub) <= Len(text)
    /\ \A k \in 1..Len(sub) : text[i + k] = sub[k]

\* \b holds at offset i of text
AtWordBoundary(text, i) ==
    LET \* \w: letters, digits, the underscore
        IsWordChar(c) ==
            FoldChar(c) \in
                {"a", "b", "c", "d", "e", "f", "g", "h", "i", "j", "k", "l", "m",
                 "n", "o", "p", "q", "r", "s", "t", "u", "v", "w", "x", "y", "z",
                 "0", "1", "2", "3", "4", "5", "6", "7", "8", "9", "_"}
        before == i >= 1 /\ IsWordChar(text[i])
        after == i < Len(text) /\ IsWordChar(text[i + 1])
    IN  before # after

\* length of the match of regex[j..] at offset i of text, -1 when it fails;
\* a regex is a sequence of characters and \b assertions
RECURSIVE RegexMatchAt(_, _, _, _)
RegexMatchAt(text, i, regex, j) ==
    IF j > Len(regex) THEN 0
    ELSE IF regex[j] = WORD_BOUNDARY
    THEN IF AtWordBoundary(text, i)
         THEN RegexMatchAt(text, i, regex, j + 1)
         ELSE -1
    ELSE IF i < Len(text) /\ FoldChar(text[i + 1]) = FoldChar(regex[j])
    THEN LET rest == RegexMatchAt(text, i + 1, regex, j + 1)
         IN  IF rest < 0 THEN -1 ELSE rest + 1
    ELSE -1

\* Optional[str]: None is <<>>, a string s is <<s>>
NoMatch == <<>>

\* re.search(regex, text, re.IGNORECASE): group(0) of the leftmost match
re_search(regex, text) ==
    LET hits == {i \in 0..Len(text) : RegexMatchAt(text, i, regex, 1) >= 0}
    IN  IF hits = {} THEN NoMatch
        ELSE LET i == SetMin(hits)
             IN  <<PySlice(text, i, i + RegexMatchAt(text, i, regex, 1))>>

ForbiddenPattern(pattern, category, severity, context, fix, is_regex) ==
    [pattern |-> pattern, category |-> category, severity |-> severity,
     context |-> context, fix |-> fix, is_regex |-> is_regex]

\* ForbiddenPattern.match
match(p, text) ==
    IF p.is_regex THEN re_search(p.pattern, text)
    ELSE LET lower_text == str_lower(text)
             lower_pattern == str_lower(p.pattern)
             \* lower_text.find(lower_pattern): the lowest offset, -1 when
             \* there is none
             hits == {i \in 0..Len(lower_text) :
                         OccursAt(lower_text, lower_pattern, i)}
             idx == IF hits = {} THEN -1 ELSE SetMin(hits)
         IN  IF idx >= 0
             THEN <<PySlice(text, idx, idx + Len(p.pattern))>>
             ELSE NoMatch

\* re.compile("```[\s\S]*?```").sub("", text), scanning from offset i
RECURSIVE StripFenced(_, _)
StripFenced(text, i) ==
    IF i >= Len(text) THEN <<>>
    ELSE LET \* offset of the first ``` at or after offset k, -1 if none
             NextFence(k) ==
                 LET hits == {h \in k..Len(text) :
                                 OccursAt(text, <<BACKTICK, BACKTICK, BACKTICK>>, h)}
                 IN  IF hits = {} THEN -1 ELSE SetMin(hits)
             close == IF NextFence(i) = i THEN NextFence(i + 3) ELSE -1
         IN  IF close >= 0 THEN StripFenced(text, close + 3)
             ELSE <<text[i + 1]>> \o StripFenced(text, i + 1)

\* number of characters other than the backtick from offset i on
RECURSIVE NonTickRun(_, _)
NonTickRun(text, i) ==
    IF i < Len(text) /\ text[i + 1] # BACKTICK
    THEN 1 + NonTickRun(text, i + 1) ELSE 0

\* re.compile("`[^`]+`").sub("", text), scanning from offset i
RECURSIVE StripInline(_, _)
StripInline(text, i) ==
    IF i >= Len(text) THEN <<>>
    ELSE LET run == NonTickRun(text, i + 1)
             closed == /\ text[i + 1] = BACKTICK
                       /\ run >= 1
                       /\ i + 1 + run < Len(text)
         IN  IF closed THEN StripInline(text, i + 2 + run)
             ELSE <<text[i + 1]>> \o StripInline(text, i + 1)

\* the two regexes of the default scan scope: ```[\s\S]*?``` and `[^`]+`
FENCED_CODE == "fenced code"

INLINE_CODE == "inline code"

\* _preprocess_text: pattern.sub("", result) for each compiled ignore pattern,
\* in order
preprocess(compiled, text) ==
    LET result[k \in 0..Len(compiled)] ==
            IF k = 0 THEN text
            ELSE IF compiled[k] = FENCED_CODE THEN StripFenced(result[k - 1], 0)
            ELSE IF compiled[k] = INLINE_CODE THEN StripInline(result[k - 1], 0)
            ELSE result[k - 1]
    IN  result[Len(compiled)]

\* _get_default_patterns: the patterns of a validator without patterns_dir
get_default_patterns ==
    << \* "as needed"
       ForbiddenPattern(
          <<"a", "s", " ", "n", "e", "e", "d", "e", "d">>,
          "VAGUE_CONDITION", "error", "instruction",
          "Replace with explicit condition", FALSE),
      \* "if appropriate"
      ForbiddenPattern(
          <<"i", "f", " ", "a", "p", "p", "r", "o", "p", "r", "i", "a", "t", "e">>,
          "VAGUE_CONDITION", "error", "instruction",
          "Define what 'appropriate' means", FALSE),
      \* "try to"
      ForbiddenPattern(
          <<"t", "r", "y", " ", "t", "o">>,
          "VAGUE_ACTION", "error", "action",
          "Remove 'try to' and state definite action", FALSE),
      \* r"\bhelp\b"
      ForbiddenPattern(
          <<WORD_BOUNDARY, "h", "e", "l", "p", WORD_BOUNDARY>>,
          "VAGUE_ACTION", "error", "action",
          "Replace with specific action", TRUE),
      \* r"\bgenerally\b"
      ForbiddenPattern(
          <<WORD_BOUNDARY, "g", "e", "n", "e", "r", "a", "l", "l", "y",
            WORD_BOUNDARY>>,
          "VAGUE_DEGREE", "error", "any",
          "Remove or specify exact cases", TRUE),
      \* r"\btypically\b"
      ForbiddenPattern(
          <<WORD_BOUNDARY, "t", "y", "p", "i", "c", "a", "l", "l", "y",
            WORD_BOUNDARY>>,
          "VAGUE_DEGREE", "error", "any",
          "Remove or specify exact cases", TRUE),
      \* r"\bmight\b"
      ForbiddenPattern(
          <<WORD_BOUNDARY, "m", "i", "g", "h", "t", WORD_BOUNDARY>>,
          "HEDGE_WORDS", "warning", "any",
          "State definite outcome", TRUE),
      \* r"\bcould\b"
      ForbiddenPattern(
          <<WORD_BOUNDARY, "c", "o", "u", "l", "d", WORD_BOUNDARY>>,
          "HEDGE_WORDS", "warning", "any",
          "State definite outcome", TRUE) >>

\* ------------------------------------------------------------------------
\* More parsed YAML values: prose, booleans, integers
\* ------------------------------------------------------------------------
\* a str whose characters matter is kept as its character sequence
PyText(chars) == [t |-> "str", s |-> "", items |-> chars, pairs |-> <<>>]

PyBool(b) == [t |-> "bool", s |-> IF b THEN "True" ELSE "False",
              items |-> <<>>, pairs |-> <<>>]

PyInt(n) == [t |-> "int", s |-> ToString(n), items |-> <<>>, pairs |-> <<>>]

IsStr(v) == v.t = "str"

IsNone(v) == v.t = "none"

\* the characters of a str; an identifier kept whole counts as one token
TextOf(v) == IF v.s = "" THEN v.items ELSE <<v.s>>

\* v.strip() == ""
IsBlank(v) == v.s = "" /\ Strip(v.items) = <<>>

\* str(v) inside an f-string: None gives "None", a str gives itself (one kept
\* as characters gives the characters joined), an int or bool its literal
Fmt(v) ==
    LET RECURSIVE join(_)
        join(chars) == IF chars = <<>> THEN ""
                       ELSE chars[1] \o join(Tail(chars))
    IN  IF v.t = "none" THEN "None"
        ELSE IF IsStr(v) /\ v.s = "" THEN join(v.items)
        ELSE v.s

\* ------------------------------------------------------------------------
\* Field selection (QualityValidator._get_scannable_fields)
\* ------------------------------------------------------------------------
\* A path is a sequence of tokens: words, single characters (".", "[", "]",
\* "-"), and indexes.  A glob of scanned_fields is a sequence of words, "."
\* and "[*]".  Keys are words, which no regex reads otherwise than letter by
\* letter; a key with punctuation in it is the tokens of KeyTokens.
STAR == "[*]"

\* the path as the string the code builds
RECURSIVE PathStr(_)
PathStr(path) == IF path = <<>> THEN "" ELSE Head(path) \o PathStr(Tail(path))

\* None, and a value that is not None
None == <<>>

Some(value) == <<value>>

\* the files the validators read: what the patterns directory holds, that is
\* what scan_scope.yaml parses to (None without the file) and the patterns of
\* forbidden_patterns_en.yaml (none without the file), and what the schema
\* file parses to (None without the file)
Files(scope, listed, json) ==
    [patterns_dir |-> [scan_scope |-> scope, patterns |-> listed],
     schema |-> json]

NoFiles == Files(None, <<>>, None)

\* QualityValidator(patterns_dir): nothing loaded yet.  patterns_dir is None
\* or the path of the patterns directory
QualityValidator(patterns_dir) ==
    [patterns_dir |-> patterns_dir, _patterns |-> None, _scan_scope |-> None,
     _ignore_patterns |-> None]

\* _load_scan_scope: the file of patterns_dir as it is now, else the default
\* scan scope
load_scan_scope(self, fs) ==
    IF self.patterns_dir # None /\ fs.patterns_dir.scan_scope # None
    THEN fs.patterns_dir.scan_scope[1]
    ELSE [scanned_fields |-> <<<<"steps", STAR, ".", "action">>,
                               <<"skill", ".", "purpose">>,
                               <<"inputs", STAR, ".", "description">>>>,
          ignored_fields |-> {"spec_version", "skill.name", "skill.version"},
          ignore_patterns |-> <<FENCED_CODE, INLINE_CODE>>]

\* _load_patterns: the patterns of the directory as it is now, the defaults
\* when there are none
load_patterns(self, fs) ==
    IF self.patterns_dir # None /\ fs.patterns_dir.patterns # <<>>
    THEN fs.patterns_dir.patterns
    ELSE get_default_patterns

\* the properties scan_scope, ignore_patterns and patterns: the cached table,
\* loaded on first use
scan_scope(self, fs) ==
    IF self._scan_scope = None THEN load_scan_scope(self, fs)
    ELSE self._scan_scope[1]

ignore_patterns(self, fs) ==
    IF self._ignore_patterns = None THEN scan_scope(self, fs).ignore_patterns
    ELSE self._ignore_patterns[1]

patterns(self, fs) ==
    IF self._patterns = None THEN load_patterns(self, fs)
    ELSE self._patterns[1]

\* _preprocess_text of a validator without patterns_dir
preprocess_text(text) ==
    preprocess(ignore_patterns(QualityValidator(None), NoFiles), text)

\* the tokens a dict key is made of
KeyTokens(key) ==
    IF key = "skill-purpose" THEN <<"skill", "-", "purpose">> ELSE <<key>>

\* re.match(f"^{pattern}$", path) with pattern = glob.replace("[*]", r"\[\d+\]"):
\* the rest of the glob is read as a regex
RECURSIVE GlobMatch(_, _)
GlobMatch(glob, path) ==
    \* $ matches at the end and before a newline that ends the path
    IF glob = <<>> THEN path = <<>> \/ path = <<NL>>
    ELSE IF Head(glob) = STAR
    THEN /\ Len(path) >= 3
         \* \[\d+\]
         /\ path[1] = "[" /\ path[2] \in {ToString(n) : n \in 0..9}
         /\ path[3] = "]"
         /\ GlobMatch(Tail(glob), SubSeq(path, 4, Len(path)))
    ELSE IF Head(glob) = "."
    \* any one character but the newline
    THEN /\ Len(path) >= 1
         /\ Len(path[1]) = 1 /\ path[1] # NL
         /\ GlobMatch(Tail(glob), Tail(path))
    ELSE /\ Len(path) >= 1
         /\ path[1] = Head(glob)
         /\ GlobMatch(Tail(glob), Tail(path))

\* extract(data, path): the (path, value) pairs in traversal order
RECURSIVE extract(_, _, _)
extract(scope, data, path) ==
    IF PathStr(path) \in scope.ignored_fields THEN <<>>
    ELSE IF IsStr(data)
    THEN IF \/ \E k \in 1..Len(scope.scanned_fields) :
                   GlobMatch(scope.scanned_fields[k], path)
            \/ scope.scanned_fields = <<>>
         THEN <<[path |-> PathStr(path), value |-> TextOf(data)]>>
         ELSE <<>>
    ELSE IF IsDict(data)
    THEN LET from[i \in 0..Len(data.pairs)] ==
                 IF i = 0 THEN <<>>
                 ELSE from[i - 1] \o
                      extract(scope, data.pairs[i].v,
                              IF path = <<>> THEN KeyTokens(data.pairs[i].k)
                              ELSE path \o <<".">> \o KeyTokens(data.pairs[i].k))
         IN  from[Len(data.pairs)]
    ELSE IF IsList(data)
    THEN LET from[i \in 0..Len(data.items)] ==
                 IF i = 0 THEN <<>>
                 ELSE from[i - 1] \o
                      extract(scope, data.items[i],
                              path \o <<"[", ToString(i - 1), "]">>)
         IN  from[Len(data.items)]
    ELSE <<>>

get_scannable_fields(self, spec_data, fs) ==
    extract(scan_scope(self, fs), spec_data, <<>>)

\* the violations one field adds: the inner loop of QualityValidator.validate
RECURSIVE ScanField(_, _, _, _, _)
ScanField(result, path, preprocessed, loaded, k) ==
    IF k > Len(loaded) THEN result
    ELSE LET pattern == loaded[k]
             matched == match(pattern, preprocessed)
             \* `if matched:` None and "" are both false
             next == IF matched # NoMatch /\ matched[1] # <<>>
                     THEN add_violation(result,
                              PatternViolation(path, pattern.pattern,
                                  matched[1], pattern.category,
                                  pattern.severity, pattern.fix))
                     ELSE result
         IN  ScanField(next, path, preprocessed, loaded, k + 1)

\* ------------------------------------------------------------------------
\* QualityValidator.validate
\* ------------------------------------------------------------------------
\* what a call comes to: the result it returns, or the exception it raises
Returned(result) == [raised |-> "", result |-> result]

Raised(exception, fresh) == [raised |-> exception, result |-> fresh]

\* the scan loop over the selected fields
RECURSIVE ScanFields(_, _, _, _, _)
ScanFields(self, fs, result, fields, k) ==
    IF k > Len(fields) THEN result
    ELSE ScanFields(self, fs,
                    ScanField(result, fields[k].path,
                              preprocess(ignore_patterns(self, fs),
                                         fields[k].value),
                              patterns(self, fs), 1),
                    fields, k + 1)

\* the body of the loop for one rule
CheckRule(result, rule, i) ==
    LET rule_id == Fmt(DictGet(rule, "id", PyStr(RuleId(i))))
        when == DictGet(rule, "when", PyNone)
        then == DictGet(rule, "then", PyNone)
        r1 == IF IsNone(when)
              THEN add_violation(result,
                       PatternViolation("decision_rules." \o rule_id \o ".when",
                           <<"missing">>, <<"<missing>">>, "MISSING_CONDITION",
                           "error", "Add 'when' condition to decision rule"))
              ELSE IF IsStr(when) /\ IsBlank(when)
              THEN add_violation(result,
                       PatternViolation("decision_rules." \o rule_id \o ".when",
                           <<"empty">>, <<"<empty>">>, "EMPTY_CONDITION",
                           "error", "Provide non-empty 'when' condition"))
              ELSE result
    IN  IF IsNone(then)
        THEN add_violation(r1,
                 PatternViolation("decision_rules." \o rule_id \o ".then",
                     <<"missing">>, <<"<missing>">>, "MISSING_ACTION",
                     "error", "Add 'then' action to decision rule"))
        ELSE r1

\* the loop over the rules; rule.get raises on an entry that is no dict
RECURSIVE CheckRules(_, _, _)
CheckRules(result, rules, k) ==
    IF k > Len(rules) THEN Returned(result)
    ELSE IF ~IsDict(rules[k]) THEN Raised("AttributeError", NewQualityResult)
    ELSE CheckRules(CheckRule(result, rules[k], k - 1), rules, k + 1)

\* _validate_decision_rules; spec_data is a dict here
validate_decision_rules(spec_data, result) ==
    LET decision_rules == DictGet(spec_data, "decision_rules", PyDict(<<>>))
        rules ==
            IF IsList(decision_rules) THEN decision_rules.items
            ELSE IF IsDict(decision_rules)
            THEN LET kept == SelectSeq(decision_rules.pairs,
                                 LAMBDA q : q.k # "_config" /\ IsDict(q.v))
                 IN  [i \in 1..Len(kept) |-> kept[i].v]
            ELSE <<>>
    IN  CheckRules(result, rules, 1)

\* _validate_output_contract; spec_data is a dict here
validate_output_contract(spec_data, result) ==
    LET output_contract == DictGet(spec_data, "output_contract", PyDict(<<>>))
    IN  IF ~IsDict(output_contract)
        THEN Raised("AttributeError", NewQualityResult)
        ELSE LET schema == DictGet(output_contract, "schema", PyNone)
                 \* type(schema).__name__
                 type_name == IF schema.t = "none" THEN "NoneType" ELSE schema.t
             IN  IF IsNone(schema)
                 THEN Returned(add_violation(result,
                          PatternViolation("output_contract.schema",
                              <<"missing">>, <<"<missing>">>, "MISSING_SCHEMA",
                              "error", "Add JSON Schema for output validation")))
                 ELSE IF ~IsDict(schema)
                 THEN Returned(add_violation(result,
                          PatternViolation("output_contract.schema",
                              <<"invalid_type">>, <<type_name>>,
                              "INVALID_SCHEMA", "error",
                              "Schema must be a JSON Schema object")))
                 ELSE IF ~HasKey(schema, "type") /\ ~HasKey(schema, "$ref")
                 THEN Returned(add_violation(result,
                          PatternViolation("output_contract.schema",
                              <<"missing_type">>, <<"<no type>">>,
                              "INCOMPLETE_SCHEMA", "warning",
                              "Add 'type' field to schema")))
                 ELSE Returned(result)

\* QualityValidator.validate with the files as they are during the call:
\* spec_data.get raises on a document that is no dict
QualityCall(self, spec_data, fs) ==
    LET fields == get_scannable_fields(self, spec_data, fs)
        scanned == ScanFields(self, fs, NewQualityResult, fields, 1)
        \* the tables the call has loaded into the instance
        after == [self EXCEPT
                     !._scan_scope = Some(scan_scope(self, fs)),
                     !._ignore_patterns =
                         IF fields = <<>> THEN @
                         ELSE Some(ignore_patterns(self, fs)),
                     !._patterns =
                         IF fields = <<>> THEN @ ELSE Some(patterns(self, fs))]
        outcome ==
            IF ~IsDict(spec_data) THEN Raised("AttributeError", NewQualityResult)
            ELSE LET rules == validate_decision_rules(spec_data, scanned)
                 IN  IF rules.raised # "" THEN rules
                     ELSE validate_output_contract(spec_data, rules.result)
    IN  [self |-> after, outcome |-> outcome]

\* QualityValidator().validate(spec_data)
QualityOutcome(spec_data) ==
    QualityCall(QualityValidator(None), spec_data, NoFiles).outcome

\* ------------------------------------------------------------------------
\* The typed model (models.py): what SkillSpec.model_validate reports
\* ------------------------------------------------------------------------
\* one entry of ValidationError.errors()
PydanticError(loc, type, msg) == [loc |-> loc, type |-> type, msg |-> msg]

\* a field: its key in the document, whether it is required, and its type
Field(name, required, kind) == [name |-> name, required |-> required, kind |-> kind]

Kind(k) == [k |-> k, min |-> 0, check |-> "", of |-> "", values |-> <<>>,
            optional |-> FALSE]

StrKind(min, check) == [Kind("str") EXCEPT !.min = min, !.check = check]

ListKind(of, min) == [Kind("list") EXCEPT !.of = of, !.min = min]

ModelKind(of) == [Kind("model") EXCEPT !.of = of]

\* Optional[...]
Optional(kind) == [kind EXCEPT !.optional = TRUE]

\* the fields of each model, in declaration order; a field whose value no
\* document of the model sets is Kind("any")
ModelFields(model) ==
    LET \* an Enum class
        EnumKind(values) == [Kind("enum") EXCEPT !.values = values]
        \* Literal[...]
        LiteralKind(values) == [Kind("literal") EXCEPT !.values = values]
    IN
    CASE model = "SkillSpec" ->
           <<Field("spec_version", FALSE,
                   LiteralKind(<<"skill-spec/1.0", "skill-spec/1.1", "skill-spec/1.2">>)),
             Field("_meta", FALSE, Kind("any")),
             Field("skill", TRUE, ModelKind("SkillMetadata")),
             Field("inputs", TRUE, ListKind("InputSpec", 1)),
             Field("preconditions", TRUE, ListKind("str", 1)),
             Field("non_goals", TRUE, ListKind("str", 1)),
             Field("decision_rules", TRUE, Kind("rules")),
             Field("steps", TRUE, ListKind("ExecutionStep", 1)),
             Field("output_contract", TRUE, ModelKind("OutputContract")),
             Field("failure_modes", TRUE, ListKind("FailureMode", 1)),
             Field("edge_cases", TRUE, ListKind("EdgeCase", 1)),
             Field("triggers", FALSE, Kind("any")),
             Field("boundaries", FALSE, Kind("any")),
             Field("behavioral_flow", FALSE, Kind("any")),
             Field("anti_patterns", FALSE, Kind("any")),
             Field("context", FALSE, Kind("any")),
             Field("examples", FALSE, Kind("any"))>>
      [] model = "SkillMetadata" ->
           <<Field("name", TRUE, StrKind(1, "kebab")),
             Field("version", TRUE, StrKind(0, "semver")),
             Field("purpose", TRUE, StrKind(10, "")),
             Field("owner", TRUE, StrKind(1, "")),
             Field("category", FALSE, Kind("any")),
             Field("complexity", FALSE, Kind("any")),
             Field("tools_required", FALSE, Kind("any")),
             Field("personas", FALSE, Kind("any")),
             Field("license", FALSE, Kind("any")),
             Field("compatibility", FALSE, Kind("any")),
             Field("allowed_tools", FALSE, Kind("any")),
             Field("metadata", FALSE, Kind("any"))>>
      [] model = "InputSpec" ->
           <<Field("name", TRUE, StrKind(0, "snake")),
             Field("type", TRUE,
                   EnumKind(<<"string", "number", "boolean", "object", "array">>)),
             Field("required", TRUE, Kind("bool")),
             Field("constraints", FALSE, Kind("any")),
             Field("domain", FALSE, Kind("any")),
             Field("description", FALSE, Optional(StrKind(0, ""))),
             Field("tags", FALSE, Kind("any"))>>
      [] model = "DecisionRule" ->
           <<Field("id", FALSE, Optional(StrKind(0, "snake"))),
             Field("priority", FALSE, Kind("any")),
             Field("is_default", FALSE, Kind("any")),
             Field("when", TRUE, Kind("when")),
             Field("then", TRUE, Kind("dict"))>>
      [] model = "ExecutionStep" ->
           <<Field("id", TRUE, StrKind(0, "snake")),
             Field("action", TRUE, StrKind(1, "")),
             Field("output", FALSE, Optional(StrKind(0, ""))),
             Field("based_on", FALSE, Optional(ListKind("str", 0))),
             Field("condition", FALSE, Optional(StrKind(0, "")))>>
      [] model = "OutputContract" ->
           <<Field("format", TRUE,
                   EnumKind(<<"json", "text", "markdown", "yaml", "binary">>)),
             Field("schema", TRUE, Kind("dict"))>>
      [] model = "FailureMode" ->
           <<Field("code", TRUE, StrKind(0, "upper_snake")),
             Field("retryable", TRUE, Kind("bool")),
             Field("description", FALSE, Optional(StrKind(0, ""))),
             Field("recovery_hint", FALSE, Optional(StrKind(0, "")))>>
      [] model = "EdgeCase" ->
           <<Field("case", TRUE, StrKind(1, "")),
             Field("expected", TRUE, Kind("dict")),
             Field("input_example", FALSE, Kind("any")),
             Field("covers_rule", FALSE, Optional(StrKind(0, ""))),
             Field("covers_failure", FALSE, Optional(StrKind(0, "")))>>

\* 'a', 'b' or 'c'
RECURSIVE QuotedList(_)
QuotedList(values) ==
    IF Len(values) = 1 THEN "'" \o values[1] \o "'"
    ELSE IF Len(values) = 2
    THEN "'" \o values[1] \o "' or '" \o values[2] \o "'"
    ELSE "'" \o values[1] \o "', " \o QuotedList(Tail(values))

\* the field validators of models.py: validate_name, validate_version,
\* validate_id, validate_code
CheckFails(check, v) ==
    LET \* the identifiers of the documents that match each pattern
        \* KEBAB_CASE_PATTERN
        KebabCaseNames == {"my-skill"}
        \* SEMVER_PATTERN
        SemVers == {"1.0.0"}
        \* SNAKE_CASE_PATTERN
        SnakeCaseNames ==
            {"a", "b", "in1", "zz"}
                \cup {p \o ToString(n) : p \in {"r", "s", "rule_"}, n \in 0..9}
        \* UPPER_SNAKE_CASE_PATTERN
        UpperSnakeCaseNames == {"E1", "ZZ"}
    IN  CASE check = "kebab" -> v.s \notin KebabCaseNames
          [] check = "semver" -> v.s \notin SemVers
          [] check = "snake" -> v.s \notin SnakeCaseNames
          [] check = "upper_snake" -> v.s \notin UpperSnakeCaseNames
          [] OTHER -> FALSE

\* the message of the ValueError the field validator raises
CheckMessage(check, model, v) ==
    CASE check = "kebab" ->
           "Value error, Skill name must be kebab-case (e.g., 'extract-api-contract'), got: "
               \o Fmt(v)
      [] check = "semver" ->
           "Value error, Version must follow semver (e.g., '1.0.0'), got: " \o Fmt(v)
      [] check = "snake" /\ model = "InputSpec" ->
           "Value error, Input name must be snake_case (e.g., 'user_input'), got: "
               \o Fmt(v)
      [] check = "snake" /\ model = "DecisionRule" ->
           "Value error, Rule ID must be snake_case (e.g., 'rule_validation'), got: "
               \o Fmt(v)
      [] check = "snake" /\ model = "ExecutionStep" ->
           "Value error, Step ID must be snake_case (e.g., 'validate_input'), got: "
               \o Fmt(v)
      [] check = "upper_snake" ->
           "Value error, Error code must be UPPER_SNAKE_CASE (e.g., 'EMPTY_INPUT'), got: "
               \o Fmt(v)
      [] OTHER -> "Value error"

\* validation of one value against a field type; model is the enclosing
\* model, loc the location of the value
RECURSIVE ValidateValue(_, _, _, _)
RECURSIVE ValidateModel(_, _, _)
ValidateValue(kind, model, v, loc) ==
    IF kind.optional /\ IsNone(v) THEN <<>>
    ELSE CASE kind.k = "any" -> <<>>
      [] kind.k = "str" ->
           IF ~IsStr(v)
           THEN <<PydanticError(loc, "string_type", "Input should be a valid string")>>
           ELSE IF v.s = "" /\ Len(v.items) < kind.min
           THEN <<PydanticError(loc, "string_too_short",
                      "String should have at least " \o ToString(kind.min)
                          \o (IF kind.min = 1 THEN " character" ELSE " characters"))>>
           ELSE IF CheckFails(kind.check, v)
           THEN <<PydanticError(loc, "value_error", CheckMessage(kind.check, model, v))>>
           ELSE <<>>
      [] kind.k = "bool" ->
           IF v.t = "bool" THEN <<>>
           ELSE <<PydanticError(loc, "bool_type", "Input should be a valid boolean")>>
      [] kind.k = "dict" ->
           IF IsDict(v) THEN <<>>
           ELSE <<PydanticError(loc, "dict_type", "Input should be a valid dictionary")>>
      [] kind.k \in {"enum", "literal"} ->
           IF IsStr(v) /\ \E i \in 1..Len(kind.values) : kind.values[i] = v.s
           THEN <<>>
           ELSE <<PydanticError(loc,
                      IF kind.k = "enum" THEN "enum" ELSE "literal_error",
                      "Input should be " \o QuotedList(kind.values))>>
      [] kind.k = "list" ->
           IF ~IsList(v)
           THEN <<PydanticError(loc, "list_type", "Input should be a valid list")>>
           ELSE IF Len(v.items) < kind.min
           THEN <<PydanticError(loc, "too_short",
                      "List should have at least " \o ToString(kind.min)
                          \o " item after validation, not " \o ToString(Len(v.items)))>>
           ELSE LET item_kind == IF kind.of = "str" THEN StrKind(0, "")
                                 ELSE ModelKind(kind.of)
                    from[i \in 0..Len(v.items)] ==
                        IF i = 0 THEN <<>>
                        ELSE from[i - 1] \o
                             ValidateValue(item_kind, model, v.items[i],
                                           Append(loc, ToString(i - 1)))
                IN  from[Len(v.items)]
      [] kind.k = "model" -> ValidateModel(kind.of, v, loc)
      [] kind.k = "when" ->
           \* Union[str, bool, Dict[str, Any]]
           IF IsStr(v) \/ v.t = "bool" \/ IsDict(v) THEN <<>>
           ELSE <<PydanticError(Append(loc, "str"), "string_type",
                                "Input should be a valid string"),
                  PydanticError(Append(loc, "bool"), "bool_type",
                                "Input should be a valid boolean"),
                  PydanticError(Append(loc, "dict[str,any]"), "dict_type",
                                "Input should be a valid dictionary")>>
      [] kind.k = "rules" ->
           \* Union[Dict[str, Any], List[DecisionRule]]: a dict is taken as
           \* it is; anything else reports the errors of both members
           IF IsDict(v) THEN <<>>
           ELSE LET as_list == ValidateValue(ListKind("DecisionRule", 0), model, v,
                                             Append(loc, "list[DecisionRule]"))
                IN  IF as_list = <<>> THEN <<>>
                    ELSE <<PydanticError(Append(loc, "dict[str,any]"), "dict_type",
                                         "Input should be a valid dictionary")>>
                         \o as_list

\* validation of a dict against a model: its fields in declaration order,
\* then the keys the model does not know (extra = "forbid")
ValidateModel(model, v, loc) ==
    IF ~IsDict(v)
    THEN <<PydanticError(loc, "model_type",
               "Input should be a valid dictionary or instance of " \o model)>>
    ELSE LET fields == ModelFields(model)
             of_fields[i \in 0..Len(fields)] ==
                 IF i = 0 THEN <<>>
                 ELSE of_fields[i - 1] \o
                      (IF HasKey(v, fields[i].name)
                       THEN ValidateValue(fields[i].kind, model,
                                          DictItem(v, fields[i].name),
                                          Append(loc, fields[i].name))
                       ELSE IF fields[i].required
                       THEN <<PydanticError(Append(loc, fields[i].name),
                                            "missing", "Field required")>>
                       ELSE <<>>)
             known == {fields[i].name : i \in 1..Len(fields)}
             extras == SelectSeq(v.pairs, LAMBDA q : q.k \notin known)
         IN  of_fields[Len(fields)] \o
             [i \in 1..Len(extras) |->
                 PydanticError(Append(loc, extras[i].k), "extra_forbidden",
                               "Extra inputs are not permitted")]

\* truth value of a Python value
PyTruthy(v) ==
    CASE v.t = "none" -> FALSE
      [] v.t = "str" -> v.s # "" \/ v.items # <<>>
      [] v.t = "list" -> v.items # <<>>
      [] v.t = "dict" -> v.pairs # <<>>
      [] v.t = "bool" -> v.s = "True"
      [] OTHER -> v.s # "0"

\* rule_ids of validate_cross_references, by the shape of decision_rules:
\* a validated list of DecisionRule, a dict with a `rules` list, or a dict
\* of rules by key
CrossRefRuleIds(decision_rules) ==
    IF IsList(decision_rules)
    THEN {DictGet(decision_rules.items[i], "id", PyNone) :
              i \in 1..Len(decision_rules.items)}
    ELSE IF IsDict(decision_rules)
    THEN IF HasKey(decision_rules, "rules")
            /\ IsList(DictItem(decision_rules, "rules"))
         THEN LET rules == DictItem(decision_rules, "rules").items
              IN  {DictItem(rules[i], "id") :
                      i \in {j \in 1..Len(rules) :
                                /\ IsDict(rules[j])
                                /\ PyTruthy(DictGet(rules[j], "id", PyNone))}}
         ELSE {DictGet(decision_rules.pairs[i].v, "id",
                       PyStr(decision_rules.pairs[i].k)) :
                  i \in {j \in 1..Len(decision_rules.pairs) :
                            /\ decision_rules.pairs[j].k # "_config"
                            /\ IsDict(decision_rules.pairs[j].v)}}
    ELSE {}

\* the ValueError of one edge case, if it raises one
EdgeCaseError(ec, rule_ids, failure_codes) ==
    LET covers_rule == DictGet(ec, "covers_rule", PyNone)
        covers_failure == DictGet(ec, "covers_failure", PyNone)
        case == Fmt(DictItem(ec, "case"))
    IN  IF PyTruthy(covers_rule) /\ covers_rule \notin rule_ids
        THEN <<PydanticError(<<>>, "value_error",
                   "Value error, Edge case '" \o case
                       \o "' references unknown rule: " \o Fmt(covers_rule))>>
        ELSE IF PyTruthy(covers_failure) /\ covers_failure \notin failure_codes
        THEN <<PydanticError(<<>>, "value_error",
                   "Value error, Edge case '" \o case
                       \o "' references unknown failure: " \o Fmt(covers_failure))>>
        ELSE <<>>

\* the loop over edge_cases: the first ValueError ends it
RECURSIVE EdgeCasesError(_, _, _, _)
EdgeCasesError(edge_cases, k, rule_ids, failure_codes) ==
    IF k > Len(edge_cases) THEN <<>>
    ELSE LET e == EdgeCaseError(edge_cases[k], rule_ids, failure_codes)
         IN  IF e # <<>> THEN e
             ELSE EdgeCasesError(edge_cases, k + 1, rule_ids, failure_codes)

\* MissingDeps letting a step depend on its own output
MissingDepsOwnOutput(step, available_outputs) ==
    LET based_on == DictGet(step, "based_on", PyNone)
        own == {DictGet(step, "output", PyNone)}
    IN  IF PyTruthy(based_on)
        THEN SelectSeq(based_on.items,
                       LAMBDA dep : dep \notin available_outputs \cup own)
        ELSE <<>>

\* the first entry of based_on that is not in available_outputs
MissingDeps(step, available_outputs) ==
    LET based_on == DictGet(step, "based_on", PyNone)
    IN  IF PyTruthy(based_on)
        THEN SelectSeq(based_on.items, LAMBDA dep : dep \notin available_outputs)
        ELSE <<>>

\* the loop over steps: the first ValueError ends it
RECURSIVE StepsError(_, _, _)
StepsError(steps, k, available_outputs) ==
    IF k > Len(steps) THEN <<>>
    ELSE LET step == steps[k]
             missing == MissingDeps(step, available_outputs)
             output == DictGet(step, "output", PyNone)
         IN  IF missing # <<>>
             THEN <<PydanticError(<<>>, "value_error",
                        "Value error, Step '" \o Fmt(DictItem(step, "id"))
                            \o "' depends on '" \o Fmt(missing[1])
                            \o "' which is not available at this point in the execution flow")>>
             ELSE StepsError(steps, k + 1,
                             IF PyTruthy(output)
                             THEN available_outputs \cup {output}
                             ELSE available_outputs)

\* SkillSpec.validate_cross_references on a document whose fields validated
validate_cross_references(spec_data) ==
    LET rule_ids == CrossRefRuleIds(DictItem(spec_data, "decision_rules"))
        failure_modes == DictItem(spec_data, "failure_modes").items
        failure_codes == {DictItem(failure_modes[i], "code") :
                             i \in 1..Len(failure_modes)}
        edges == EdgeCasesError(DictItem(spec_data, "edge_cases").items, 1,
                                rule_ids, failure_codes)
    IN  IF edges # <<>> THEN edges
        ELSE StepsError(DictItem(spec_data, "steps").items, 1, {})

\* the errors of the ValidationError SkillSpec.model_validate raises, none
\* when it returns: the model validator runs after the fields validated
model_validate(spec_data) ==
    LET of_fields == ValidateModel("SkillSpec", spec_data, <<>>)
    IN  IF of_fields # <<>> THEN of_fields
        ELSE validate_cross_references(spec_data)

\* ------------------------------------------------------------------------
\* SchemaValidator.validate (validator/schema.py)
\* ------------------------------------------------------------------------
REQUIRED_SECTIONS ==
    LET CORE_SECTIONS ==
            <<"skill", "inputs", "preconditions", "non_goals", "decision_rules",
              "steps", "output_contract", "failure_modes">>
        COVERAGE_SECTIONS == <<"edge_cases">>
    IN  CORE_SECTIONS \o COVERAGE_SECTIONS

\* ERROR_SUGGESTIONS.get(section), for the required sections
ERROR_SUGGESTIONS(section) ==
    CASE section = "skill" ->
           "Add a 'skill' section with name, version, purpose, and owner"
      [] section = "inputs" ->
           "Add an 'inputs' section with at least one input definition"
      [] section = "preconditions" ->
           "Add a 'preconditions' section listing prerequisites"
      [] section = "non_goals" ->
           "Add a 'non_goals' section stating what the skill does NOT do"
      [] section = "decision_rules" ->
           "Add 'decision_rules' section with explicit conditions"
      [] section = "steps" -> "Add a 'steps' section with execution flow"
      [] section = "output_contract" ->
           "Add 'output_contract' with format and schema"
      [] section = "failure_modes" ->
           "Add 'failure_modes' section with error definitions"
      [] section = "edge_cases" ->
           "Add 'edge_cases' section covering boundary conditions"

\* `key in spec_data` raises TypeError unless spec_data is a container
InRaises(spec_data) == spec_data.t \notin {"dict", "list", "str"}

\* `key in spec_data`: a key of a dict, an item of a list, a part of a str
In(key, spec_data) ==
    CASE IsDict(spec_data) -> HasKey(spec_data, key)
      [] IsList(spec_data) ->
           \E i \in 1..Len(spec_data.items) : spec_data.items[i] = PyStr(key)
      [] OTHER -> spec_data.s = key

\* spec_data[key] raises TypeError unless spec_data is a dict
ItemRaises(spec_data) == ~IsDict(spec_data)

\* _check_required_sections from the k-th section on
RECURSIVE CheckSections(_, _, _)
CheckSections(spec_data, result, k) ==
    IF k > Len(REQUIRED_SECTIONS) THEN Returned(result)
    ELSE LET section == REQUIRED_SECTIONS[k]
         IN  IF InRaises(spec_data) THEN Raised("TypeError", NewSchemaResult)
             ELSE IF ~In(section, spec_data)
             THEN CheckSections(spec_data,
                      add_error(result, section,
                                "Missing required section: " \o section,
                                Suggestion(ERROR_SUGGESTIONS(section))),
                      k + 1)
             ELSE IF ItemRaises(spec_data)
             THEN Raised("TypeError", NewSchemaResult)
             ELSE IF IsNone(DictItem(spec_data, section))
             THEN CheckSections(spec_data,
                      add_error(result, section,
                                "Section '" \o section \o "' is null",
                                Suggestion("Provide valid content for '"
                                               \o section \o "'")),
                      k + 1)
             ELSE IF /\ IsList(DictItem(spec_data, section))
                     /\ Len(DictItem(spec_data, section).items) = 0
             THEN CheckSections(spec_data,
                      add_error(result, section,
                                "Section '" \o section \o "' is empty",
                                Suggestion("Add at least one item to '"
                                               \o section \o "'")),
                      k + 1)
             ELSE CheckSections(spec_data, result, k + 1)

check_required_sections(spec_data, result) == CheckSections(spec_data, result, 1)

\* _check_spec_version; `x not in valid_versions` hashes x, which raises
\* TypeError for a list or a dict
check_spec_version(spec_data, result) ==
    IF InRaises(spec_data) THEN Raised("TypeError", NewSchemaResult)
    ELSE IF ~In("spec_version", spec_data)
    THEN Returned(add_error(result, "spec_version",
                      "Missing required field: spec_version",
                      Suggestion("Add 'spec_version: \"skill-spec/1.1\"'")))
    ELSE IF ItemRaises(spec_data) THEN Raised("TypeError", NewSchemaResult)
    ELSE LET valid_versions == {"skill-spec/1.0", "skill-spec/1.1"}
             v == DictItem(spec_data, "spec_version")
         IN  IF IsList(v) \/ IsDict(v) THEN Raised("TypeError", NewSchemaResult)
             ELSE IF ~(IsStr(v) /\ v.s \in valid_versions)
             THEN Returned(add_warning(result, "spec_version",
                               "Unknown spec version: " \o Fmt(v),
                               Suggestion("Use 'skill-spec/1.0' or 'skill-spec/1.1'")))
             ELSE Returned(result)

\* ".".join(str(loc) for loc in error["loc"])
RECURSIVE JoinDots(_)
JoinDots(loc) ==
    IF loc = <<>> THEN ""
    ELSE IF Len(loc) = 1 THEN loc[1]
    ELSE loc[1] \o "." \o JoinDots(Tail(loc))

\* _get_suggestion_for_error
get_suggestion_for_error(error) ==
    IF error.type = "missing"
    THEN Suggestion("Add the required field '"
                        \o (IF error.loc = <<>> THEN "unknown"
                            ELSE error.loc[Len(error.loc)]) \o "'")
    ELSE IF error.type = "string_pattern_mismatch"
    THEN Suggestion("Check the format matches the required pattern")
    ELSE IF error.type = "string_too_short"
    THEN Suggestion("Provide a longer value")
    ELSE IF error.type = "list_type"
    THEN Suggestion("This field should be a list")
    ELSE NoSuggestion

\* _validate_with_pydantic: one error per entry of e.errors()
RECURSIVE AddPydanticErrors(_, _, _)
AddPydanticErrors(result, errors, k) ==
    IF k > Len(errors) THEN result
    ELSE AddPydanticErrors(
             add_error(result, JoinDots(errors[k].loc), errors[k].msg,
                       get_suggestion_for_error(errors[k])),
             errors, k + 1)

validate_with_pydantic(spec_data, result) ==
    AddPydanticErrors(result, model_validate(spec_data), 1)

\* SchemaValidator.validate running the typed model whatever the earlier
\* checks found
SchemaOutcomeUngated(spec_data) ==
    LET sections == check_required_sections(spec_data, NewSchemaResult)
    IN  IF sections.raised # "" THEN sections
        ELSE LET version == check_spec_version(spec_data, sections.result)
             IN  IF version.raised # "" THEN version
                 ELSE Returned(validate_with_pydantic(spec_data, version.result))

\* SchemaValidator.validate of a validator built without schema_path: the
\* typed model runs only while the result is still valid
SchemaOutcome(spec_data) ==
    LET sections == check_required_sections(spec_data, NewSchemaResult)
    IN  IF sections.raised # "" THEN sections
        ELSE LET version == check_spec_version(spec_data, sections.result)
             IN  IF version.raised # "" THEN version
                 ELSE IF version.result.valid
                 THEN Returned(validate_with_pydantic(spec_data, version.result))
                 ELSE version

\* SchemaValidator(schema_path): no schema loaded yet.  schema_path is None
\* or the path of the schema file
SchemaValidator(schema_path) == [schema_path |-> schema_path, _schema |-> None]

\* a JSON Schema, by the one keyword that decides about a spec document: the
\* keys it requires ("type": "object" holds of every document the JSON Schema
\* pass is reached with)
JsonSchema(required) == [required |-> required]

\* _get_default_schema
get_default_schema == JsonSchema(REQUIRED_SECTIONS \o <<"spec_version">>)

\* the property schema: the cached schema; on first use the file of
\* schema_path as it is now, the default schema without the file
schema(self, fs) ==
    IF self._schema # None THEN self._schema[1]
    ELSE IF self.schema_path # None /\ fs.schema # None THEN fs.schema[1]
    ELSE get_default_schema

\* jsonschema.validate(spec_data, schema) raising ValidationError: the
\* message of the first required key the document lacks, None when it lacks
\* none
jsonschema_error(spec_data, json) ==
    LET missing == SelectSeq(json.required, LAMBDA key : ~In(key, spec_data))
    IN  IF missing = <<>> THEN None
        ELSE Some("'" \o missing[1] \o "' is a required property")

\* _validate_with_jsonschema: the error has no path, which reads "root"; the
\* schemas are well-formed, so that jsonschema.SchemaError is not raised
validate_with_jsonschema(self, spec_data, result, fs) ==
    LET error == jsonschema_error(spec_data, schema(self, fs))
    IN  IF error = None THEN result
        ELSE add_error(result, "root", error[1], NoSuggestion)

\* SchemaValidator.validate with the files as they are during the call: the
\* JSON Schema pass runs for a validator built with schema_path, while the
\* result is still valid, and loads the schema into the instance
SchemaCall(self, spec_data, fs) ==
    LET typed == SchemaOutcome(spec_data)
    IN  IF typed.raised = "" /\ typed.result.valid /\ self.schema_path # None
        THEN [self |-> [self EXCEPT !._schema = Some(schema(self, fs))],
              outcome |-> Returned(validate_with_jsonschema(
                                       self, spec_data, typed.result, fs))]
        ELSE [self |-> self, outcome |-> typed]

\* ------------------------------------------------------------------------
\* Spec documents handed to the validators
\* ------------------------------------------------------------------------
\* "do one thing"
TextPurpose ==
    <<"d", "o", " ", "o", "n", "e", " ", "t", "h", "i", "n", "g">>

\* "do it"
TextPlain == <<"d", "o", " ", "i", "t">>

\* "Try to validate the input as needed"
TextTryTo ==
    <<"T", "r", "y", " ", "t", "o", " ", "v", "a", "l", "i", "d", "a", "t",
      "e", " ", "t", "h", "e", " ", "i", "n", "p", "u", "t", " ", "a", "s",
      " ", "n", "e", "e", "d", "e", "d">>

\* U+0130 followed by " try to"
TextDotted == <<DOTTED_I, " ", "t", "r", "y", " ", "t", "o">>

\* "`try to` helper"
TextCode ==
    <<BACKTICK, "t", "r", "y", " ", "t", "o", BACKTICK, " ", "h", "e", "l",
      "p", "e", "r">>

\* "Help me"
TextHelp == <<"H", "e", "l", "p", " ", "m", "e">>

\* "it MIGHT"
TextMight == <<"i", "t", " ", "M", "I", "G", "H", "T">>

\* "try `x`to"
TextJoined == <<"t", "r", "y", " ", BACKTICK, "x", BACKTICK, "t", "o">>

\* what a step's action may say
ActionTexts ==
    {TextPlain, TextTryTo, TextDotted, TextCode, TextHelp, TextMight, TextJoined}

\* bodies of rule entries: complete, without `when`, with a blank `when`,
\* without `then`; and an entry that is no object
CompleteRule == PyDict(<<Pair("when", PyStr("x")), Pair("then", PyDict(<<>>))>>)

RuleWithoutWhen == PyDict(<<Pair("then", PyDict(<<>>))>>)

RuleWithBlankWhen ==
    PyDict(<<Pair("when", PyText(<<SP>>)), Pair("then", PyDict(<<>>))>>)

RuleWithoutThen == PyDict(<<Pair("when", PyStr("x"))>>)

NotAnObject == PyStr("oops")

RuleBodies == {CompleteRule, RuleWithoutWhen, RuleWithBlankWhen, RuleWithoutThen}

\* 1..MaxItems rule entries; a body is a rule, anything else NotAnObject
RuleListings ==
    SeqsUpTo(RuleBodies \cup {NotAnObject}, MaxItems) \ {<<>>}

IsBody(entry) == IsDict(entry)

\* the id of the i-th rule of a listing
RuleName(i) == "r" \o ToString(i)

\* the three encodings of a listing, the i-th rule having the id RuleName(i)
AsBareList(listing) ==
    PyList([i \in 1..Len(listing) |->
               IF IsBody(listing[i])
               THEN PyDict(<<Pair("id", PyStr(RuleName(i)))>> \o listing[i].pairs)
               ELSE listing[i]])

AsCanonical(listing) ==
    PyDict(<<Pair("_config", ConfigObject), Pair("rules", AsBareList(listing))>>)

AsKeyed(listing) ==
    PyDict([i \in 1..Len(listing) |->
               Pair(RuleName(i), listing[i])])

DecisionRulesValues ==
    UNION {{AsBareList(l), AsCanonical(l), AsKeyed(l)} : l \in RuleListings}

\* steps: each may produce the output "o1" and may depend on it
StepKinds ==
    {produces \o depends :
        produces \in {<<>>, <<Pair("output", PyStr("o1"))>>},
        depends \in {<<>>, <<Pair("based_on", PyList(<<PyStr("o1")>>))>>}}

StepName(i) == "s" \o ToString(i)

StepsOf(kinds, text) ==
    PyList([i \in 1..Len(kinds) |->
               PyDict(<<Pair("id", PyStr(StepName(i))),
                        Pair("action", PyText(text))>> \o kinds[i])])

StepsValues ==
    {StepsOf(kinds, TextPlain) : kinds \in SeqsUpTo(StepKinds, MaxItems) \ {<<>>}}
        \cup {StepsOf(<<<<>>>>, text) : text \in ActionTexts}

\* edge cases: covering nothing, the rule r1, a rule or a failure mode that
\* does not exist, or both of these
EdgeKinds ==
    {<<>>,
     <<Pair("covers_rule", PyStr("r1"))>>,
     <<Pair("covers_rule", PyStr("zz"))>>,
     <<Pair("covers_failure", PyStr("ZZ"))>>,
     <<Pair("covers_rule", PyStr("zz")), Pair("covers_failure", PyStr("ZZ"))>>}

EdgeName(i) == "c" \o ToString(i)

EdgeCasesOf(kinds) ==
    PyList([i \in 1..Len(kinds) |->
               PyDict(<<Pair("case", PyStr(EdgeName(i))),
                        Pair("expected", PyDict(<<>>))>> \o kinds[i])])

EdgeCasesValues ==
    {EdgeCasesOf(kinds) : kinds \in SeqsUpTo(EdgeKinds, MaxItems) \ {<<>>}}

JsonFormat == Pair("format", PyStr("json"))

OutputContractValues ==
    {PyDict(<<JsonFormat, Pair("schema", PyDict(<<Pair("type", PyStr("object"))>>))>>),
     PyDict(<<JsonFormat, Pair("schema", PyDict(<<>>))>>),
     PyDict(<<JsonFormat, Pair("schema", PyStr("oops"))>>),
     PyDict(<<JsonFormat>>),
     PyStr("oops")}

\* a complete, valid document: the value of each top-level key
BaseValue(key) ==
    CASE key = "spec_version" -> PyStr("skill-spec/1.0")
      [] key = "skill" ->
           PyDict(<<Pair("name", PyStr("my-skill")),
                    Pair("version", PyStr("1.0.0")),
                    Pair("purpose", PyText(TextPurpose)),
                    Pair("owner", PyStr("team"))>>)
      [] key = "inputs" ->
           PyList(<<PyDict(<<Pair("name", PyStr("in1")),
                             Pair("type", PyStr("string")),
                             Pair("required", PyBool(TRUE))>>)>>)
      [] key = "preconditions" -> PyList(<<PyStr("ready")>>)
      [] key = "non_goals" -> PyList(<<PyStr("nothing else")>>)
      [] key = "decision_rules" -> AsBareList(<<CompleteRule>>)
      [] key = "steps" -> StepsOf(<<<<>>>>, TextPlain)
      [] key = "output_contract" ->
           PyDict(<<JsonFormat,
                    Pair("schema", PyDict(<<Pair("type", PyStr("object"))>>))>>)
      [] key = "failure_modes" ->
           PyList(<<PyDict(<<Pair("code", PyStr("E1")),
                             Pair("retryable", PyBool(TRUE))>>)>>)
      [] key = "edge_cases" -> EdgeCasesOf(<<<<>>>>)

TopLevelKeys == <<"spec_version">> \o REQUIRED_SECTIONS

\* one section written otherwise than in the base document
ContentChoices ==
    {[key |-> "decision_rules", value |-> v] : v \in DecisionRulesValues}
        \cup {[key |-> "steps", value |-> v] : v \in StepsValues}
        \cup {[key |-> "edge_cases", value |-> v] : v \in EdgeCasesValues}
        \cup {[key |-> "output_contract", value |-> v] : v \in OutputContractValues}

\* at most one key left out (<<>>) or given a value of the wrong sort
Absent == <<>>

DefectChoices ==
    {[key |-> "none", value |-> Absent]}
        \cup {[key |-> REQUIRED_SECTIONS[i], value |-> v] :
                 i \in 1..Len(REQUIRED_SECTIONS),
                 v \in {Absent, <<PyNone>>, <<PyList(<<>>)>>}}
        \cup {[key |-> "spec_version", value |-> v] :
                 v \in {Absent, <<PyStr("skill-spec/1.2")>>,
                        <<PyStr("skill-spec/2.0")>>, <<PyList(<<>>)>>}}

\* the document: the base, with the content choice, with the defect on top
Document(content, defect) ==
    LET entry(key) ==
            IF defect.key = key
            THEN [i \in 1..Len(defect.value) |-> Pair(key, defect.value[i])]
            ELSE IF content.key = key THEN <<Pair(key, content.value)>>
            ELSE <<Pair(key, BaseValue(key))>>
        from[i \in 0..Len(TopLevelKeys)] ==
            IF i = 0 THEN <<>> ELSE from[i - 1] \o entry(TopLevelKeys[i])
    IN  PyDict(from[Len(TopLevelKeys)])

\* documents that are no mapping
NonMappings == {PyList(<<>>), PyList(<<PyStr("skill")>>), PyInt(42)}

NoDefect == [key |-> "none", value |-> Absent]

\* lines of a document a manual section is inserted into: the headings h
\* and g, text, and the four marker lines
InsertLineSet ==
    {<<"## ", "h">>, <<"## ", "g">>, <<"k">>, <<MANUAL_START>>, <<MANUAL_END>>,
     <<GENERATED_START>>, <<GENERATED_END>>}

\* every block is closed before the next one opens and before the end
RECURSIVE Closed(_, _)
Closed(lines, open) ==
    IF lines = <<>> THEN open = UNMARKED
    ELSE LET line == Head(lines)
         IN  IF line = <<MANUAL_START>>
             THEN open = UNMARKED /\ Closed(Tail(lines), MANUAL)
             ELSE IF line = <<GENERATED_START>>
             THEN open = UNMARKED /\ Closed(Tail(lines), GENERATED)
             ELSE IF line = <<MANUAL_END>>
             THEN open = MANUAL /\ Closed(Tail(lines), UNMARKED)
             ELSE IF line = <<GENERATED_END>>
             THEN open = GENERATED /\ Closed(Tail(lines), UNMARKED)
             ELSE Closed(Tail(lines), open)

InsertDocSet ==
    {JoinLines(ls) : ls \in {q \in SeqsUpTo(InsertLineSet, MaxInsertLines) :
                                q # <<>> /\ Closed(q, UNMARKED)}}

\* the manual content: "m", " m" and "m\nn"
ManualContentSet == {<<"m">>, <<SP, "m">>, <<"m", NL, "n">>}

\* after_section: absent, the heading h, a heading the document has not
AfterSectionSet == {<<>>, <<"h">>, <<"z">>}

\* skill names given to the lifecycle commands: "a" and "b-1", and the
\* names "A" and "a-", which are not kebab-case
NameSet == {<<"a">>, <<"b", "-", "1">>, <<"A">>, <<"a", "-">>}

\* a patterns directory: a scan_scope.yaml that selects the skill's purpose
\* only and strips inline code only, and one pattern of its own
CustomDir ==
    [scan_scope |-> Some([scanned_fields |-> <<<<"skill", ".", "purpose">>>>,
                          ignored_fields |-> {"skill.name"},
                          ignore_patterns |-> <<INLINE_CODE>>]),
     patterns |-> <<ForbiddenPattern(<<"h", "e", "l", "p">>, "CUSTOM", "warning",
                                     "any", "Review and revise", FALSE)>>]

\* the paths the validators are constructed with
PatternsPath == Some("patterns")

SchemaPath == Some("schema.json")

\* a schema file that requires a key no spec document has
RequiresLicense == JsonSchema(<<"skill", "license">>)

\* what the files hold, one version after the other: first the patterns
\* directory and the schema file above, then neither file
FileVersions ==
    <<Files(CustomDir.scan_scope, CustomDir.patterns, Some(RequiresLicense)),
      NoFiles>>

\* the validators constructed: instances of one class, without a path or
\* with one
ConstructorArgs ==
    {[class |-> "quality", at |-> None], [class |-> "quality", at |-> PatternsPath],
     [class |-> "schema", at |-> None], [class |-> "schema", at |-> SchemaPath]}

\* "try to"
Vague == PyText(<<"t", "r", "y", " ", "t", "o">>)

\* trees for field selection: any of these entries, every string leaf
\* saying "try to"
SelectEntries ==
    <<Pair("spec_version", Vague),
      Pair("skill", PyDict(<<Pair("name", Vague), Pair("purpose", Vague)>>)),
      Pair("skill-purpose", Vague),
      Pair("steps", PyList(<<PyDict(<<Pair("action", Vague)>>), Vague>>)),
      Pair("notes", Vague)>>

SelectTreeSet ==
    {LET from[i \in 0..Len(SelectEntries)] ==
             IF i = 0 THEN <<>>
             ELSE IF i \in chosen THEN Append(from[i - 1], SelectEntries[i])
             ELSE from[i - 1]
     IN  PyDict(from[Len(SelectEntries)]) :
        chosen \in SUBSET (1..Len(SelectEntries))}

\* patterns directories for field selection: none; a scan_scope.yaml without
\* scanned_fields; one whose globs overlap
SelectDirSet ==
    {None,
     Some([scan_scope |-> Some([scanned_fields |-> <<>>,
                                ignored_fields |-> {"skill", "steps[1]"},
                                ignore_patterns |-> <<>>]),
           patterns |-> <<>>]),
     Some([scan_scope |-> Some([scanned_fields |->
                                    <<<<"steps", STAR>>,
                                      <<"steps", STAR, ".", "action">>,
                                      <<"steps", STAR, ".", "action">>,
                                      <<"notes">>, <<"skill", ".", "name">>>>,
                                ignored_fields |-> {"notes"},
                                ignore_patterns |-> <<>>]),
           patterns |-> <<>>])}

\* the validator instances of a class: two of them
Instances == {1, 2}

\* documents validated more than once: a valid one whose step says "Help
\* me", one whose output contract is no mapping, and one that is no
\* mapping itself
RepeatDataSet ==
    {Document([key |-> "steps", value |-> StepsOf(<<<<>>>>, TextHelp)], NoDefect),
     Document([key |-> "output_contract", value |-> PyStr("oops")], NoDefect),
     PyInt(42)}

\* two rules, the first with the explicit id r1, the second without id, in
\* the three encodings; the keys of the keyed one are k1 and k2
CoveredRules ==
    LET explicit == PyDict(<<Pair("id", PyStr("r1"))>> \o CompleteRule.pairs)
    IN  {PyList(<<explicit, CompleteRule>>),
         PyDict(<<Pair("_config", ConfigObject),
                  Pair("rules", PyList(<<explicit, CompleteRule>>))>>),
         PyDict(<<Pair("k1", explicit), Pair("k2", CompleteRule)>>)}

\* what the edge case of such a document says it covers
CoversChoices == {"r1", "rule_1", "k1", "k2", "zz"}

\* otherwise valid documents with such rules and one edge case covering a rule
CoverageDocSet ==
    {Document([key |-> "decision_rules", value |-> dr],
              [key |-> "edge_cases",
               value |-> <<EdgeCasesOf(<<<<Pair("covers_rule", PyStr(id))>>>>)>>]) :
        dr \in CoveredRules, id \in CoversChoices}

\* every content choice without defect, every defect on each way of writing
\* output_contract, the documents about coverage, and the documents that are
\* no mapping
SpecDataSet ==
    {Document(c, NoDefect) : c \in ContentChoices}
        \cup CoverageDocSet
        \cup {Document([key |-> "output_contract", value |-> v], d) :
                  v \in OutputContractValues, d \in DefectChoices}
        \cup NonMappings

\* what add_error / add_warning / add_violation are called with
FindingPaths == {"skill"}

FindingSeverities == {"error", "warning", "info"}

FindingCategories == {"VAGUE_ACTION", "HEDGE_WORDS"}

\* ------------------------------------------------------------------------
\* State
\* ------------------------------------------------------------------------
VARIABLES
    skill_md,           \* SKILL.md on disk: [exists, text]
    spec_yaml,          \* the skill's spec.yaml: [exists, text], text being
                        \* what _generate_skill_md renders from it
    existing_content,   \* what the last generate read from disk: [exists, text]
    opts,               \* [force, no_preserve] of the last generate
    preservation_result,\* result of the merge of the last generate
    path,               \* the branch the last generate took
    exit_code,          \* its exit status
    decision_rules,     \* the raw decision_rules value of a spec document
    values,             \* the value model validation holds for it
    passes,             \* times extract_rules has run on it
    spec_data,          \* the parsed spec document handed to the validators
    schema_status,      \* SchemaValidator.validate: "idle", "returned" or
                        \* the exception it raised
    schema_result,      \* the SchemaValidationResult being built or returned
    quality_status,     \* QualityValidator.validate, likewise
    quality_result,     \* the QualityValidationResult being built or returned
    actual_content,     \* the SKILL.md text the last check-consistency read
    check_path,         \* the branch the last check-consistency took
    check_exit_code,    \* its exit status
    consistency_result, \* its ConsistencyValidationResult
    parser,             \* a call of parse_skill_md: its argument, its locals
                        \* and the ParsedDocument it builds
    files,              \* what the patterns directory and the schema file
                        \* hold now
    validators,         \* the QualityValidator instances alive
    schema_validators,  \* the SchemaValidator instances alive
    runs,               \* the validate calls made on them and on schema
                        \* validators, each with what it came to
    insertion,          \* a call of insert_manual_section and its result
    drafts,             \* the names under drafts/
    skills,             \* the names under skills/
    archived,           \* the directories under archive/
    today,              \* the day datetime.now() falls on
    command             \* the last lifecycle command and how it ended

reconciler_vars == <<skill_md, spec_yaml, existing_content, opts,
                     preservation_result, path, exit_code>>

normalizer_vars == <<decision_rules, values, passes>>

validator_vars == <<spec_data, schema_status, schema_result, quality_status,
                    quality_result>>

consistency_vars == <<actual_content, check_path, check_exit_code,
                      consistency_result>>

repeat_vars == <<files, validators, schema_validators, runs>>

lifecycle_vars == <<drafts, skills, archived, today, command>>

vars == <<skill_md, spec_yaml, existing_content, opts, preservation_result,
          path, exit_code, decision_rules, values, passes, spec_data,
          schema_status, schema_result, quality_status, quality_result,
          actual_content, check_path, check_exit_code, consistency_result,
          parser, files, validators, schema_validators, runs, insertion,
          drafts, skills, archived, today, command>>

NoFile == [exists |-> FALSE, text |-> <<>>]

File(text) == [exists |-> TRUE, text |-> text]

\* PreservationResult(success=True, merged_content="")
EmptyResult ==
    [success |-> TRUE, merged_content |-> <<>>,
     manual_blocks_preserved |-> 0, generated_blocks_updated |-> 0,
     warnings |-> <<>>, errors |-> <<>>]

\* nothing run yet
ReconcilerIdle ==
    /\ existing_content = NoFile
    /\ opts = [force |-> FALSE, no_preserve |-> FALSE]
    /\ preservation_result = EmptyResult
    /\ path = "none"
    /\ exit_code = 0

\* no rules held
NormalizerIdle ==
    /\ decision_rules = PyNone
    /\ values = PyNone
    /\ passes = 0

\* no validator has run: fresh results
ValidatorIdle ==
    /\ schema_status = "idle"
    /\ schema_result = NewSchemaResult
    /\ quality_status = "idle"
    /\ quality_result = NewQualityResult

\* parse_skill_md called with content, before its first statement
Called(content) ==
    [pc |-> "called", content |-> content, has_markers |-> FALSE,
     blocks |-> <<>>, lines |-> <<>>, i |-> 0, current_block_lines |-> <<>>,
     current_block_type |-> UNMARKED, current_section |-> NoSection]

\* parse_skill_md is not running
ParserIdle == parser = [Called(<<>>) EXCEPT !.pc = "idle"]

\* no validator instance, no call
RepeatIdle ==
    /\ files = NoFiles
    /\ validators = <<>>
    /\ schema_validators = <<>>
    /\ runs = <<>>

\* insert_manual_section called with these arguments
Inserting(content, manual_content, after_section) ==
    [pc |-> "called", content |-> content, manual_content |-> manual_content,
     after_section |-> after_section, result |-> <<>>]

\* insert_manual_section has not been called
InsertIdle == insertion = [Inserting(<<>>, <<>>, <<>>) EXCEPT !.pc = "idle"]

\* an empty skillspec root, no command run
LifecycleIdle ==
    /\ drafts = {}
    /\ skills = {}
    /\ archived = {}
    /\ today = 1
    /\ command = [name |-> "", args |-> <<>>, validated |-> "", exit_code |-> 0]

\* check-consistency has not run
ConsistencyIdle ==
    /\ actual_content = <<>>
    /\ check_path = "none"
    /\ check_exit_code = 0
    /\ consistency_result = NewConsistencyResult

\* a skill directory: any SKILL.md (or none), any spec.yaml (or none)
Init ==
    /\ skill_md \in {NoFile} \cup {File(d) : d \in DocSet}
    /\ spec_yaml \in {NoFile} \cup {File(g) : g \in GenSet}
    /\ ReconcilerIdle
    /\ NormalizerIdle
    /\ spec_data = PyNone
    /\ ValidatorIdle
    /\ ConsistencyIdle
    /\ ParserIdle
    /\ RepeatIdle
    /\ InsertIdle
    /\ LifecycleIdle

\* a decision_rules value about to be validated
InitNorm ==
    /\ skill_md = NoFile
    /\ spec_yaml = NoFile
    /\ ReconcilerIdle
    /\ decision_rules \in RawRulesSet
    /\ values = decision_rules
    /\ passes = 0
    /\ spec_data = PyNone
    /\ ValidatorIdle
    /\ ConsistencyIdle
    /\ ParserIdle
    /\ RepeatIdle
    /\ InsertIdle
    /\ LifecycleIdle

\* ------------------------------------------------------------------------
\* cli.generate
\* ------------------------------------------------------------------------
\* the command with --no-preserve overwriting without asking for --force
GenerateOutcomeNoForceCheck(disk, spec, force, no_preserve) ==
    IF ~spec.exists
    THEN [path |-> "not_found", exit_code |-> 1, result |-> EmptyResult,
          final |-> <<>>]
    ELSE IF no_preserve
    THEN [path |-> IF disk.exists THEN "overwrite" ELSE "new_plain",
          exit_code |-> 0, result |-> EmptyResult, final |-> spec.text]
    ELSE IF disk.exists
    THEN LET r == merge_with_preservation(disk.text, spec.text, force)
         IN  [path |-> "merge", exit_code |-> 0, result |-> r,
              final |-> r.merged_content]
    ELSE [path |-> "new_wrapped", exit_code |-> 0, result |-> EmptyResult,
          final |-> wrap_generated_block(spec.text)]

\* The command's outcome for a disk state and inputs:
\* [path, exit_code, result, final] ; final is written only on exit_code 0.
GenerateOutcome(disk, spec, force, no_preserve) ==
    IF ~spec.exists
    THEN [path |-> "not_found", exit_code |-> 1, result |-> EmptyResult,
          final |-> <<>>]
    ELSE IF disk.exists
    THEN IF no_preserve
         THEN IF ~force
              THEN [path |-> "refused", exit_code |-> 1, result |-> EmptyResult,
                    final |-> <<>>]
              ELSE [path |-> "overwrite", exit_code |-> 0, result |-> EmptyResult,
                    final |-> spec.text]
         ELSE LET r == merge_with_preservation(disk.text, spec.text, force)
              IN  IF ~r.success
                  THEN [path |-> "merge_failed", exit_code |-> 1, result |-> r,
                        final |-> <<>>]
                  ELSE [path |-> "merge", exit_code |-> 0, result |-> r,
                        final |-> r.merged_content]
    ELSE IF no_preserve
         THEN [path |-> "new_plain", exit_code |-> 0, result |-> EmptyResult,
               final |-> spec.text]
         ELSE [path |-> "new_wrapped", exit_code |-> 0, result |-> EmptyResult,
               final |-> wrap_generated_block(spec.text)]

\* (the model stops regenerating a SKILL.md longer than MaxFileLen tokens)
generate(force, no_preserve) ==
    /\ Len(skill_md.text) <= MaxFileLen
    /\ LET o == GenerateOutcome(skill_md, spec_yaml, force, no_preserve)
       IN  /\ path' = o.path
           /\ exit_code' = o.exit_code
           /\ preservation_result' = o.result
           /\ skill_md' = IF o.exit_code = 0 THEN File(o.final) ELSE skill_md
           /\ existing_content' = IF spec_yaml.exists THEN skill_md ELSE NoFile
    /\ opts' = [force |-> force, no_preserve |-> no_preserve]
    /\ UNCHANGED <<spec_yaml, normalizer_vars, validator_vars,
                   consistency_vars, parser, repeat_vars,
                   insertion, lifecycle_vars>>

Next ==
    \E force \in BOOLEAN, no_preserve \in BOOLEAN : generate(force, no_preserve)

Spec == Init /\ [][Next]_vars

\* ------------------------------------------------------------------------
\* cli.check_consistency
\* ------------------------------------------------------------------------
check_consistency ==
    /\ IF ~spec_yaml.exists
       THEN /\ check_path' = "not_found"
            /\ check_exit_code' = 1
            /\ UNCHANGED <<actual_content, consistency_result>>
       ELSE IF ~skill_md.exists
       THEN /\ check_path' = "no_skill_md"
            /\ check_exit_code' = 1
            /\ UNCHANGED <<actual_content, consistency_result>>
       ELSE LET expected_content == spec_yaml.text
                result == validate_document_consistency(skill_md.text,
                                                        expected_content)
            IN  /\ actual_content' = skill_md.text
                /\ consistency_result' = result
                /\ check_path' = "checked"
                /\ check_exit_code' = IF result.valid THEN 0 ELSE 1
    /\ UNCHANGED <<reconciler_vars, normalizer_vars, validator_vars, parser,
                   repeat_vars, insertion, lifecycle_vars>>

\* ------------------------------------------------------------------------
\* parse_skill_md, statement by statement
\* ------------------------------------------------------------------------
\* a document about to be parsed
InitParse ==
    /\ skill_md = NoFile
    /\ spec_yaml = NoFile
    /\ ReconcilerIdle
    /\ NormalizerIdle
    /\ spec_data = PyNone
    /\ ValidatorIdle
    /\ ConsistencyIdle
    /\ parser \in {Called(content) : content \in ParseDocSet}
    /\ RepeatIdle
    /\ InsertIdle
    /\ LifecycleIdle

\* up to the loop: has_markers, the early return, the split into lines
parse_begin ==
    /\ parser.pc = "called"
    /\ LET content == parser.content
           has_markers == \/ Contains(content, GENERATED_START)
                          \/ Contains(content, MANUAL_START)
       IN  parser' =
               IF ~has_markers
               THEN [parser EXCEPT
                        !.pc = "returned",
                        !.blocks = <<[block_type |-> UNMARKED, content |-> content,
                                      section_name |-> NoSection]>>]
               ELSE [parser EXCEPT
                        !.pc = "loop", !.has_markers = TRUE,
                        !.lines = SplitLines(content)]
    /\ UNCHANGED <<reconciler_vars, normalizer_vars, validator_vars,
                   consistency_vars, repeat_vars, insertion, lifecycle_vars>>

\* one pass of the while loop, on lines[i]
parse_line ==
    /\ parser.pc = "loop"
    /\ parser.i < Len(parser.lines)
    /\ LET line == parser.lines[parser.i + 1]
           cur == parser.current_block_lines
           block == ContentBlock(parser.current_block_type, cur,
                                 parser.current_section)
           flushed == IF Len(cur) > 0 THEN Append(parser.blocks, block)
                      ELSE parser.blocks
       IN  parser' =
               IF Contains(line, GENERATED_START)
               THEN [parser EXCEPT !.blocks = flushed, !.current_block_lines = <<>>,
                                   !.current_block_type = GENERATED,
                                   !.i = parser.i + 1]
               ELSE IF Contains(line, MANUAL_START)
               THEN [parser EXCEPT !.blocks = flushed, !.current_block_lines = <<>>,
                                   !.current_block_type = MANUAL,
                                   !.i = parser.i + 1]
               ELSE IF Contains(line, GENERATED_END) \/ Contains(line, MANUAL_END)
               THEN [parser EXCEPT !.blocks = Append(parser.blocks, block),
                                   !.current_block_lines = <<>>,
                                   !.current_block_type = UNMARKED,
                                   !.i = parser.i + 1]
               ELSE [parser EXCEPT
                        !.current_section =
                            IF StartsWith(line, "## ") THEN Strip(Tail(line))
                            ELSE IF StartsWith(line, "# ") THEN Strip(Tail(line))
                            ELSE parser.current_section,
                        !.current_block_lines = Append(cur, line),
                        !.i = parser.i + 1]
    /\ UNCHANGED <<reconciler_vars, normalizer_vars, validator_vars,
                   consistency_vars, repeat_vars, insertion, lifecycle_vars>>

\* after the loop: the remaining lines are saved, the document returned
parse_end ==
    /\ parser.pc = "loop"
    /\ parser.i >= Len(parser.lines)
    /\ LET cur == parser.current_block_lines
       IN  parser' =
               [parser EXCEPT
                   !.pc = "returned",
                   !.blocks =
                       IF Len(cur) > 0
                       THEN Append(parser.blocks,
                                   ContentBlock(parser.current_block_type, cur,
                                                parser.current_section))
                       ELSE parser.blocks]
    /\ UNCHANGED <<reconciler_vars, normalizer_vars, validator_vars,
                   consistency_vars, repeat_vars, insertion, lifecycle_vars>>

NextParse == parse_begin \/ parse_line \/ parse_end

SpecParse == InitParse /\ [][NextParse]_vars

\* ------------------------------------------------------------------------
\* One document validated again and again
\* ------------------------------------------------------------------------
\* two instances of one validator class, constructed with the same
\* arguments; the files hold their first version
InitRepeat ==
    /\ skill_md = NoFile
    /\ spec_yaml = NoFile
    /\ ReconcilerIdle
    /\ NormalizerIdle
    /\ spec_data \in RepeatDataSet
    /\ ValidatorIdle
    /\ ConsistencyIdle
    /\ ParserIdle
    /\ files = FileVersions[1]
    /\ \E args \in ConstructorArgs :
           IF args.class = "quality"
           THEN /\ validators = [n \in Instances |-> QualityValidator(args.at)]
                /\ schema_validators = <<>>
           ELSE /\ validators = <<>>
                /\ schema_validators =
                       [n \in Instances |-> SchemaValidator(args.at)]
    /\ runs = <<>>
    /\ InsertIdle
    /\ LifecycleIdle

\* what a call leaves in the history: the validator and the instance, the
\* files it ran with, and what it came to
Run(validator, n, fresh, outcome, findings) ==
    [validator |-> validator, instance |-> n, fresh |-> fresh, files |-> files,
     raised |-> outcome.raised, valid |-> outcome.result.valid,
     findings |-> findings]

\* the instance is as its constructor left it: nothing loaded
FreshQuality(self) == self = QualityValidator(self.patterns_dir)

FreshSchema(self) == self = SchemaValidator(self.schema_path)

\* validate with one violations list shared by every result (a mutable
\* default in place of default_factory=list): each call reports what the
\* calls before it found as well
quality_call_sharing(n) ==
    /\ Len(runs) < MaxRuns
    /\ \E call \in {QualityCall(validators[n], spec_data, files)} :
       LET earlier == SelectSeq(runs, LAMBDA run : run.validator = "quality")
           shared == IF earlier = <<>> THEN <<>>
                     ELSE earlier[Len(earlier)].findings
       IN  /\ validators' = [validators EXCEPT ![n] = call.self]
           /\ runs' = Append(runs, Run("quality", n,
                                      FreshQuality(validators[n]), call.outcome,
                                      shared \o call.outcome.result.violations))
    /\ UNCHANGED <<reconciler_vars, normalizer_vars, validator_vars,
                   consistency_vars, parser, files, schema_validators,
                   insertion, lifecycle_vars>>

\* validators[n].validate(spec_data): the call loads the instance's tables
quality_call(n) ==
    /\ Len(runs) < MaxRuns
    /\ \E call \in {QualityCall(validators[n], spec_data, files)} :
           /\ validators' = [validators EXCEPT ![n] = call.self]
           /\ runs' = Append(runs, Run("quality", n,
                                      FreshQuality(validators[n]), call.outcome,
                                      call.outcome.result.violations))
    /\ UNCHANGED <<reconciler_vars, normalizer_vars, validator_vars,
                   consistency_vars, parser, files, schema_validators,
                   insertion, lifecycle_vars>>

\* schema_validators[n].validate(spec_data): the call loads the instance's
\* schema when it comes to the JSON Schema pass
schema_call(n) ==
    /\ Len(runs) < MaxRuns
    /\ \E call \in {SchemaCall(schema_validators[n], spec_data, files)} :
           /\ schema_validators' = [schema_validators EXCEPT ![n] = call.self]
           /\ runs' = Append(runs, Run("schema", n,
                                      FreshSchema(schema_validators[n]),
                                      call.outcome,
                                      call.outcome.result.errors
                                          \o call.outcome.result.warnings))
    /\ UNCHANGED <<reconciler_vars, normalizer_vars, validator_vars,
                   consistency_vars, parser, files, validators, insertion,
                   lifecycle_vars>>

\* validators[n].scan_scope, .ignore_patterns or .patterns read from outside
\* validate: the property loads what the instance does not hold yet, the
\* compiled ignore patterns together with the scan scope they come from
read_scan_scope(n) ==
    /\ validators' =
           [validators EXCEPT ![n] =
               [@ EXCEPT !._scan_scope = Some(scan_scope(validators[n], files))]]
    /\ UNCHANGED <<reconciler_vars, normalizer_vars, validator_vars,
                   consistency_vars, parser, files, schema_validators, runs,
                   insertion, lifecycle_vars>>

read_ignore_patterns(n) ==
    /\ validators' =
           [validators EXCEPT ![n] =
               IF @._ignore_patterns # None THEN @
               ELSE [@ EXCEPT !._scan_scope =
                                  Some(scan_scope(validators[n], files)),
                              !._ignore_patterns =
                                  Some(ignore_patterns(validators[n], files))]]
    /\ UNCHANGED <<reconciler_vars, normalizer_vars, validator_vars,
                   consistency_vars, parser, files, schema_validators, runs,
                   insertion, lifecycle_vars>>

read_patterns(n) ==
    /\ validators' =
           [validators EXCEPT ![n] =
               [@ EXCEPT !._patterns = Some(patterns(validators[n], files))]]
    /\ UNCHANGED <<reconciler_vars, normalizer_vars, validator_vars,
                   consistency_vars, parser, files, schema_validators, runs,
                   insertion, lifecycle_vars>>

\* schema_validators[n].schema read from outside validate
read_schema(n) ==
    /\ schema_validators' =
           [schema_validators EXCEPT ![n] =
               [@ EXCEPT !._schema = Some(schema(schema_validators[n], files))]]
    /\ UNCHANGED <<reconciler_vars, normalizer_vars, validator_vars,
                   consistency_vars, parser, files, validators, runs,
                   insertion, lifecycle_vars>>

\* somebody rewrites the patterns directory and the schema file between two
\* calls: the files take their next version
edit_files ==
    /\ \E v \in 1..(Len(FileVersions) - 1) :
           /\ files = FileVersions[v]
           /\ files' = FileVersions[v + 1]
    /\ UNCHANGED <<reconciler_vars, normalizer_vars, validator_vars,
                   consistency_vars, parser, validators, schema_validators,
                   runs, insertion, lifecycle_vars>>

NextRepeat ==
    \/ \E n \in DOMAIN validators :
           \/ quality_call(n)
           \/ read_scan_scope(n)
           \/ read_ignore_patterns(n)
           \/ read_patterns(n)
    \/ \E n \in DOMAIN schema_validators : schema_call(n) \/ read_schema(n)
    \/ edit_files

SpecRepeat == InitRepeat /\ [][NextRepeat]_vars

\* ------------------------------------------------------------------------
\* A manual section inserted into a document
\* ------------------------------------------------------------------------
InitInsert ==
    /\ skill_md = NoFile
    /\ spec_yaml = NoFile
    /\ ReconcilerIdle
    /\ NormalizerIdle
    /\ spec_data = PyNone
    /\ ValidatorIdle
    /\ ConsistencyIdle
    /\ ParserIdle
    /\ RepeatIdle
    /\ insertion \in {Inserting(content, manual_content, after_section) :
                          content \in InsertDocSet,
                          manual_content \in ManualContentSet,
                          after_section \in AfterSectionSet}
    /\ LifecycleIdle

\* insert_manual_section(content, manual_content, after_section) returns
insert_section ==
    /\ insertion.pc = "called"
    /\ insertion' = [insertion EXCEPT
                         !.pc = "returned",
                         !.result = insert_manual_section(insertion.content,
                                                          insertion.manual_content,
                                                          insertion.after_section)]
    /\ UNCHANGED <<reconciler_vars, normalizer_vars, validator_vars,
                   consistency_vars, parser, repeat_vars, lifecycle_vars>>

NextInsert == insert_section

SpecInsert == InitInsert /\ [][NextInsert]_vars

\* ------------------------------------------------------------------------
\* The lifecycle commands: init, publish, archive
\* ------------------------------------------------------------------------
\* drafts, skills and archived are the directories under drafts/, skills/
\* and archive/.  A skill name is a sequence of characters.  A directory
\* under archive/ is [date, name, inside]: archive/<date>-<name>, or with
\* inside the directory <name> within it.
InitLifecycle ==
    /\ skill_md = NoFile
    /\ spec_yaml = NoFile
    /\ ReconcilerIdle
    /\ NormalizerIdle
    /\ spec_data = PyNone
    /\ ValidatorIdle
    /\ ConsistencyIdle
    /\ ParserIdle
    /\ RepeatIdle
    /\ InsertIdle
    /\ LifecycleIdle

\* the command that ran, and its exit status
Ran(name, args, validated, status) ==
    [name |-> name, args |-> args, validated |-> validated,
     exit_code |-> status]

\* re.match(r"^[a-z][a-z0-9]*(-[a-z0-9]+)*$", name); $ also matches before
\* a newline that ends the name
KebabCase(name) ==
    LET Lower == {"a", "b"}
        Alnum == Lower \cup {"0", "1"}
        body == IF name # <<>> /\ name[Len(name)] = NL
                THEN SubSeq(name, 1, Len(name) - 1) ELSE name
    IN  /\ body # <<>>
        /\ body[1] \in Lower
        /\ \A i \in 1..Len(body) : body[i] \in Alnum \cup {"-"}
        /\ body[Len(body)] # "-"
        /\ \A i \in 1..(Len(body) - 1) : ~(body[i] = "-" /\ body[i + 1] = "-")

\* init that does not look into skills/
init_unchecked(name) ==
    /\ IF ~KebabCase(name) \/ name \in drafts
       THEN /\ command' = Ran("init", name, "", 1)
            /\ UNCHANGED drafts
       ELSE /\ drafts' = drafts \cup {name}
            /\ command' = Ran("init", name, "", 0)
    /\ UNCHANGED <<skills, archived, today>>
    /\ UNCHANGED <<reconciler_vars, normalizer_vars, validator_vars,
                   consistency_vars, parser, repeat_vars, insertion>>

\* skillspec init <name>
init(name) ==
    /\ IF ~KebabCase(name) \/ name \in drafts \/ name \in skills
       THEN /\ command' = Ran("init", name, "", 1)
            /\ UNCHANGED drafts
       ELSE /\ drafts' = drafts \cup {name}
            /\ command' = Ran("init", name, "", 0)
    /\ UNCHANGED <<skills, archived, today>>
    /\ UNCHANGED <<reconciler_vars, normalizer_vars, validator_vars,
                   consistency_vars, parser, repeat_vars, insertion>>

\* skillspec publish <name>; whether the draft passes strict validation
\* depends on what its spec.yaml says by then
publish(name) ==
    /\ IF name \notin drafts \/ name \in skills
       THEN /\ command' = Ran("publish", name, "", 1)
            /\ UNCHANGED <<drafts, skills>>
       ELSE \E valid \in BOOLEAN :
                IF ~valid
                THEN /\ command' = Ran("publish", name, "failed", 1)
                     /\ UNCHANGED <<drafts, skills>>
                \* shutil.move(draft_dir, skills_dir)
                ELSE /\ drafts' = drafts \ {name}
                     /\ skills' = skills \cup {name}
                     /\ command' = Ran("publish", name, "passed", 0)
    /\ UNCHANGED <<archived, today>>
    /\ UNCHANGED <<reconciler_vars, normalizer_vars, validator_vars,
                   consistency_vars, parser, repeat_vars, insertion>>

\* skillspec archive <name>.  shutil.move into a directory that exists
\* moves the skill inside it, and raises when that exists as well
archive(name) ==
    /\ LET archive_path == [date |-> today, name |-> name, inside |-> FALSE]
           real_dst == [archive_path EXCEPT !.inside = TRUE]
       IN  IF name \notin skills \/ {archive_path, real_dst} \subseteq archived
           THEN /\ command' = Ran("archive", name, "", 1)
                /\ UNCHANGED <<skills, archived>>
           ELSE /\ skills' = skills \ {name}
                /\ archived' = archived \cup
                       {IF archive_path \in archived THEN real_dst
                        ELSE archive_path}
                /\ command' = Ran("archive", name, "", 0)
    /\ UNCHANGED <<drafts, today>>
    /\ UNCHANGED <<reconciler_vars, normalizer_vars, validator_vars,
                   consistency_vars, parser, repeat_vars, insertion>>

\* midnight: datetime.now() moves on to the next day
next_day ==
    /\ today < MaxDays
    /\ today' = today + 1
    /\ UNCHANGED <<drafts, skills, archived, command>>
    /\ UNCHANGED <<reconciler_vars, normalizer_vars, validator_vars,
                   consistency_vars, parser, repeat_vars, insertion>>

NextLifecycle ==
    \/ \E name \in NameSet : init(name) \/ publish(name) \/ archive(name)
    \/ next_day

SpecLifecycle == InitLifecycle /\ [][NextLifecycle]_vars

\* validators with a scan scope of their own, called on trees of strings
InitSelect ==
    /\ skill_md = NoFile
    /\ spec_yaml = NoFile
    /\ ReconcilerIdle
    /\ NormalizerIdle
    /\ spec_data \in SelectTreeSet
    /\ ValidatorIdle
    /\ ConsistencyIdle
    /\ ParserIdle
    /\ \E dir \in SelectDirSet :
           IF dir = None
           THEN /\ files = NoFiles
                /\ validators = [n \in Instances |-> QualityValidator(None)]
           ELSE /\ files = Files(dir[1].scan_scope, dir[1].patterns, None)
                /\ validators =
                       [n \in Instances |-> QualityValidator(PatternsPath)]
    /\ schema_validators = <<>>
    /\ runs = <<>>
    /\ InsertIdle
    /\ LifecycleIdle

NextSelect == \E n \in Instances : quality_call(n)

SpecSelect == InitSelect /\ [][NextSelect]_vars

\* a skill directory whose SKILL.md is made of blocks about the content the
\* spec.yaml renders, or is absent
InitCheck ==
    /\ \/ \E g \in FreshSet :
              /\ spec_yaml = File(g)
              /\ skill_md \in {NoFile} \cup {File(doc) : doc \in BlockDocSet(g)}
       \/ spec_yaml = NoFile /\ skill_md = NoFile
    /\ ReconcilerIdle
    /\ NormalizerIdle
    /\ spec_data = PyNone
    /\ ValidatorIdle
    /\ ConsistencyIdle
    /\ ParserIdle
    /\ RepeatIdle
    /\ InsertIdle
    /\ LifecycleIdle

NextCheck ==
    \/ \E force \in BOOLEAN, no_preserve \in BOOLEAN : generate(force, no_preserve)
    \/ check_consistency

SpecCheck == InitCheck /\ [][NextCheck]_vars

\* DecisionRules.model_validate: the before-validator runs on the value held;
\* validating the result again runs it on its own output
normalize ==
    /\ passes < MaxPasses
    /\ values' = extract_rules(values)
    /\ passes' = passes + 1
    /\ UNCHANGED <<decision_rules, reconciler_vars, validator_vars,
                   consistency_vars, parser, repeat_vars,
                   insertion, lifecycle_vars>>

NextNorm == normalize

SpecNorm == InitNorm /\ [][NextNorm]_vars

\* ------------------------------------------------------------------------
\* The validators on one spec document
\* ------------------------------------------------------------------------
\* a parsed spec document, no validator run on it yet
InitValidate ==
    /\ skill_md = NoFile
    /\ spec_yaml = NoFile
    /\ ReconcilerIdle
    /\ NormalizerIdle
    /\ spec_data \in SpecDataSet
    /\ ValidatorIdle
    /\ ConsistencyIdle
    /\ ParserIdle
    /\ RepeatIdle
    /\ InsertIdle
    /\ LifecycleIdle

\* SchemaValidator().validate(spec_data)
schema_validate ==
    /\ schema_status = "idle"
    /\ LET outcome == SchemaOutcome(spec_data)
       IN  /\ schema_status' = IF outcome.raised = "" THEN "returned"
                               ELSE outcome.raised
           /\ schema_result' = outcome.result
    /\ UNCHANGED <<spec_data, quality_status, quality_result, reconciler_vars,
                   normalizer_vars,
                   consistency_vars, parser, repeat_vars,
                   insertion, lifecycle_vars>>

\* QualityValidator().validate(spec_data)
quality_validate ==
    /\ quality_status = "idle"
    /\ LET outcome == QualityOutcome(spec_data)
       IN  /\ quality_status' = IF outcome.raised = "" THEN "returned"
                                ELSE outcome.raised
           /\ quality_result' = outcome.result
    /\ UNCHANGED <<spec_data, schema_status, schema_result, reconciler_vars,
                   normalizer_vars,
                   consistency_vars, parser, repeat_vars,
                   insertion, lifecycle_vars>>

NextValidate == schema_validate \/ quality_validate

SpecValidate == InitValidate /\ [][NextValidate]_vars

\* ------------------------------------------------------------------------
\* Findings added to fresh results one at a time
\* ------------------------------------------------------------------------
InitFindings ==
    /\ skill_md = NoFile
    /\ spec_yaml = NoFile
    /\ ReconcilerIdle
    /\ NormalizerIdle
    /\ spec_data = PyNone
    /\ ValidatorIdle
    /\ ConsistencyIdle
    /\ ParserIdle
    /\ RepeatIdle
    /\ InsertIdle
    /\ LifecycleIdle

SchemaFindings == Len(schema_result.errors) + Len(schema_result.warnings)

\* result.add_error(path=where, message, suggestion)
AddError(where, suggestion) ==
    /\ SchemaFindings < MaxFindings
    /\ schema_result' = add_error(schema_result, where, "message", suggestion)
    /\ UNCHANGED <<spec_data, schema_status, quality_status, quality_result,
                   reconciler_vars, normalizer_vars,
                   consistency_vars, parser, repeat_vars,
                   insertion, lifecycle_vars>>

\* result.add_warning(path=where, message, suggestion)
AddWarning(where, suggestion) ==
    /\ SchemaFindings < MaxFindings
    /\ schema_result' = add_warning(schema_result, where, "message", suggestion)
    /\ UNCHANGED <<spec_data, schema_status, quality_status, quality_result,
                   reconciler_vars, normalizer_vars,
                   consistency_vars, parser, repeat_vars,
                   insertion, lifecycle_vars>>

\* result.add_violation(violation)
AddViolation(category, severity) ==
    /\ Len(quality_result.violations) < MaxFindings
    /\ quality_result' =
           add_violation(quality_result,
               PatternViolation("steps[0].action", <<"pattern">>, <<"text">>,
                                category, severity, "fix"))
    /\ UNCHANGED <<spec_data, schema_status, schema_result, quality_status,
                   reconciler_vars, normalizer_vars,
                   consistency_vars, parser, repeat_vars,
                   insertion, lifecycle_vars>>

NextFindings ==
    \/ \E where \in FindingPaths, suggestion \in {NoSuggestion, Suggestion("fix")} :
           AddError(where, suggestion)
    \/ \E where \in FindingPaths, suggestion \in {NoSuggestion, Suggestion("fix")} :
           AddWarning(where, suggestion)
    \/ \E category \in FindingCategories, severity \in FindingSeverities :
           AddViolation(category, severity)

SpecFindings == InitFindings /\ [][NextFindings]_vars

\* ------------------------------------------------------------------------
\* Reconciler claims
\* ------------------------------------------------------------------------
\* the last command was a merge of the previous document D == existing_content
\* with the fresh content G == spec_yaml, without --force
MergedNoForce == path = "merge" /\ ~opts.force

MergedForce == path = "merge" /\ opts.force

\* contents of the Manual blocks of a document, in order
ManualContents(text) ==
    LET bs == get_manual_blocks(parse_skill_md(text))
    IN  [i \in 1..Len(bs) |-> bs[i].content]

\* the last n elements of a sequence
LastN(s, n) == Slice(s, Len(s) - n + 1, Len(s))

\* C1: round trip of reconciliation: after a non-force merge of D with G the
\* merged text parses into exactly as many Manual blocks as D, in the same
\* order, with contents equal to D's up to surrounding whitespace, and
\* manual_blocks_preserved is that number.
C1_RoundTrip ==
    MergedNoForce =>
        LET old == ManualContents(existing_content.text)
            new == ManualContents(preservation_result.merged_content)
        IN  /\ Len(new) = Len(old)
            /\ \A i \in 1..Len(old) : i <= Len(new) => Strip(new[i]) = Strip(old[i])
            /\ preservation_result.manual_blocks_preserved = Len(old)

\* C2 as claimed: the text between the manual markers of every preserved
\* block is character-for-character the text of the previous document.
C2_ByteForByte ==
    MergedNoForce =>
        LET old == ManualContents(existing_content.text)
            new == ManualContents(preservation_result.merged_content)
        IN  Len(new) >= Len(old) /\ LastN(new, Len(old)) = old

\* C2 amended: the previous document's Manual blocks are the last Manual
\* blocks of the merged text, in order, each with its content stripped of
\* leading and trailing whitespace (str.strip) and otherwise unchanged.
C2_CarriedStripped ==
    MergedNoForce =>
        LET old == ManualContents(existing_content.text)
            new == ManualContents(preservation_result.merged_content)
        IN  /\ Len(new) >= Len(old)
            /\ LastN(new, Len(old)) = [i \in 1..Len(old) |-> Strip(old[i])]

\* a preserved block whose content strip() changes and that spans two lines
C2_Witness ==
    /\ MergedNoForce
    /\ \E c \in {ManualContents(existing_content.text)[i] :
                    i \in 1..Len(ManualContents(existing_content.text))} :
          Strip(c) # c /\ Contains(Strip(c), NL)

\* C3: force semantics: a forced merge succeeds, returns the fresh content
\* itself (which is the fresh content modulo wrapping markers) whatever the
\* previous document is, with exactly one warning, the full-overwrite one,
\* and zero preserved manual blocks.
C3_Force ==
    MergedForce =>
        /\ preservation_result.success
        /\ preservation_result.merged_content = spec_yaml.text
        /\ preservation_result.warnings = <<WarnForce>>
        /\ preservation_result.errors = <<>>
        /\ preservation_result.manual_blocks_preserved = 0

\* a forced merge over a previous document that holds a Manual block
C3_Witness ==
    MergedForce /\ Len(ManualContents(existing_content.text)) >= 1

\* no marker of any kind in the text
NoMarkers(text) == \A m \in Markers : ~Contains(text, m)

\* text is content with "generated-start\n" inserted at some position and
\* "\ngenerated-end" appended
WrappedOnce(text, content) ==
    \E e \in 0..Len(content) :
        text = Slice(content, 1, e) \o <<GENERATED_START, NL>>
                   \o Slice(content, e + 1, Len(content)) \o <<NL, GENERATED_END>>

\* C4: first-time adoption: a previous document without markers, merged
\* without force, gives the fresh content wrapped once in Generated markers
\* (one start and one end marker added, no manual marker added), exactly one
\* warning, the one about absent markers, and none of the previous
\* document's text ("a" is text only previous documents hold).
C4_FirstAdoption ==
    (MergedNoForce /\ NoMarkers(existing_content.text)) =>
        LET m == preservation_result.merged_content
            g == spec_yaml.text
        IN  /\ WrappedOnce(m, g)
            /\ Count(m, GENERATED_START) = Count(g, GENERATED_START) + 1
            /\ Count(m, GENERATED_END) = Count(g, GENERATED_END) + 1
            /\ Count(m, MANUAL_START) = Count(g, MANUAL_START)
            /\ Count(m, MANUAL_END) = Count(g, MANUAL_END)
            /\ ~Contains(m, "a")
            /\ preservation_result.success
            /\ preservation_result.warnings = <<WarnNoMarkers>>
            /\ preservation_result.manual_blocks_preserved = 0

\* adoption of a previous document with text, by content with front matter
C4_Witness ==
    /\ MergedNoForce
    /\ NoMarkers(existing_content.text)
    /\ Contains(existing_content.text, "a")
    /\ FrontmatterEnd(spec_yaml.text) > 0

\* Marker structure of a document, as the claim lists its corruptions: an end
\* marker with no open block, an end marker of the other kind, a start marker
\* inside an open block, a block never closed.  open is the kind of the open
\* block, or UNMARKED.
RECURSIVE MalformedFrom(_, _, _)
MalformedFrom(lines, i, open) ==
    IF i > Len(lines) THEN open # UNMARKED
    ELSE LET line == lines[i]
         IN  IF Contains(line, GENERATED_START) \/ Contains(line, MANUAL_START)
             THEN \/ open # UNMARKED
                  \/ MalformedFrom(lines, i + 1,
                         IF Contains(line, GENERATED_START) THEN GENERATED ELSE MANUAL)
             ELSE IF Contains(line, GENERATED_END)
             THEN open # GENERATED \/ MalformedFrom(lines, i + 1, UNMARKED)
             ELSE IF Contains(line, MANUAL_END)
             THEN open # MANUAL \/ MalformedFrom(lines, i + 1, UNMARKED)
             ELSE MalformedFrom(lines, i + 1, open)

Malformed(text) == MalformedFrom(SplitLines(text), 1, UNMARKED)

\* C5: marker-structure corruption is fatal: a non-force merge of a previous
\* document with malformed marker structure fails (success = false, errors
\* not empty) and the generate command writes no file.
C5_CorruptionFatal ==
    (/\ path \in {"merge", "merge_failed"}
     /\ ~opts.force
     /\ Malformed(existing_content.text)) =>
        /\ ~preservation_result.success
        /\ Len(preservation_result.errors) > 0
        /\ exit_code # 0
        /\ skill_md = existing_content

\* C6: merging is idempotent across regenerations: a non-force merge that
\* follows a non-force merge with the same fresh content leaves the text as
\* it is.
C6_Idempotent ==
    [][(MergedNoForce /\ MergedNoForce') => skill_md' = skill_md]_vars

\* every error exit leaves SKILL.md as it was; SKILL.md is written only on
\* exit 0 of a branch whose merge (if any) succeeded; and a write without
\* --force keeps every Manual block of the previous SKILL.md (content up to
\* surrounding whitespace), in order, as the last Manual blocks of the new one
PersistedAfterSuccess ==
    /\ exit_code' # 0 => skill_md' = skill_md
    /\ skill_md' # skill_md =>
          /\ exit_code' = 0
          /\ path' = "merge" => preservation_result'.success
    /\ (exit_code' = 0 /\ skill_md.exists /\ ~opts'.force) =>
          LET old == ManualContents(skill_md.text)
              new == ManualContents(skill_md'.text)
          IN  /\ Len(new) >= Len(old)
              /\ \A i \in 1..Len(old) :
                    Strip(LastN(new, Len(old))[i]) = Strip(old[i])

\* C7: generate writes SKILL.md only after the merge computation succeeded:
\* error exits leave it unchanged, and manual blocks of an existing SKILL.md
\* are dropped only under --force.
C7_WriteAfterMerge == [][PersistedAfterSuccess]_vars

\* an error exit (--no-preserve without --force) after a successful merge
\* that kept a Manual block
C7_Witness ==
    /\ path = "refused"
    /\ exit_code = 1
    /\ Contains(skill_md.text, GENERATED_START)
    /\ Len(ManualContents(skill_md.text)) >= 1

\* ------------------------------------------------------------------------
\* Normalizer claims (checked under SpecNorm)
\* ------------------------------------------------------------------------
\* the input is in the canonical, the keyed or the bare-list encoding
IsCanonical(raw) == IsDict(raw) /\ HasKey(raw, "rules")

IsKeyed(raw) == IsDict(raw) /\ ~HasKey(raw, "rules")

\* the rule objects of a normalized value
NormalizedRuleObjects(v) ==
    IF IsDict(v) /\ HasKey(v, "rules") /\ IsList(DictItem(v, "rules"))
    THEN SelectSeq(DictItem(v, "rules").items, IsDict)
    ELSE <<>>

\* a dict without its id entry
WithoutId(d) == PyDict(SelectSeq(d.pairs, LAMBDA p : p.k # "id"))

\* C8: normalization is idempotent: running the normalizer on its own output
\* changes nothing, whatever encoding the input had.
C8_NormalizeIdempotent == [][passes >= 1 => values' = values]_vars

\* the output of a keyed map with an id-less rule, normalized a second time
C8_Witness ==
    /\ passes = 2
    /\ IsKeyed(decision_rules)
    /\ \E i \in 1..Len(decision_rules.pairs) :
          /\ decision_rules.pairs[i].k # "_config"
          /\ IsDict(decision_rules.pairs[i].v)
          /\ ~HasKey(decision_rules.pairs[i].v, "id")

\* C9: the normalizer's output has unique rule identifiers: no two rules of
\* the normalized list carry the same id.
C9_UniqueIds ==
    passes >= 1 =>
        LET rules == NormalizedRuleObjects(values)
        IN  \A i, j \in 1..Len(rules) :
                i # j => DictItem(rules[i], "id") # DictItem(rules[j], "id")

\* out is the list `src` with ids assigned by position: same length and order,
\* entries that are no objects untouched, an explicit id kept, an id-less rule
\* at 0-based position n given rule_<n> and otherwise unchanged
PositionalIds(out, src) ==
    /\ IsList(out)
    /\ Len(out.items) = Len(src)
    /\ \A i \in 1..Len(src) :
          IF ~IsDict(src[i]) THEN out.items[i] = src[i]
          ELSE IF HasKey(src[i], "id") THEN out.items[i] = src[i]
          ELSE /\ IsDict(out.items[i])
               /\ HasKey(out.items[i], "id")
               /\ DictItem(out.items[i], "id") = PyStr(RuleId(i - 1))
               /\ WithoutId(out.items[i]) = src[i]

\* out is the list of the object-valued entries of the keyed map other than
\* _config, in the map's order, an explicit id kept, an id-less rule given
\* its key
KeyedIds(out, pairs) ==
    LET src == SelectSeq(pairs, LAMBDA p : p.k # "_config" /\ IsDict(p.v))
    IN  /\ IsList(out)
        /\ Len(out.items) = Len(src)
        /\ \A i \in 1..Len(src) :
              IF HasKey(src[i].v, "id") THEN out.items[i] = src[i].v
              ELSE /\ IsDict(out.items[i])
                   /\ HasKey(out.items[i], "id")
                   /\ DictItem(out.items[i], "id") = PyStr(src[i].k)
                   /\ WithoutId(out.items[i]) = src[i].v

\* C10: id assignment policy: after normalization every rule object carries an
\* id; an explicit id is kept, an id-less rule at position i of a list (bare
\* or canonical `rules`) receives rule_<i>, an id-less rule of the keyed
\* encoding receives its key, _config is never turned into a rule, and the
\* rules keep the order of the source collection.
C10_IdPolicy ==
    (passes = 1 /\ (IsDict(decision_rules) \/ IsList(decision_rules))) =>
        /\ IsDict(values) /\ HasKey(values, "rules")
        /\ \A i \in 1..Len(NormalizedRuleObjects(values)) :
              HasKey(NormalizedRuleObjects(values)[i], "id")
        /\ LET out == DictItem(values, "rules")
           IN  IF IsList(decision_rules)
               THEN PositionalIds(out, decision_rules.items)
               ELSE IF IsKeyed(decision_rules)
               THEN KeyedIds(out, decision_rules.pairs)
               ELSE IF IsList(DictItem(decision_rules, "rules"))
               THEN PositionalIds(out, DictItem(decision_rules, "rules").items)
               ELSE out = DictItem(decision_rules, "rules")

\* a normalized bare list that mixes a rule with an explicit id and, after it,
\* an id-less rule
C10_Witness ==
    /\ passes = 1
    /\ IsList(decision_rules)
    /\ Len(decision_rules.items) >= 2
    /\ IsDict(decision_rules.items[1]) /\ HasKey(decision_rules.items[1], "id")
    /\ IsDict(decision_rules.items[2]) /\ ~HasKey(decision_rules.items[2], "id")

\* ------------------------------------------------------------------------
\* Validator claims
\* ------------------------------------------------------------------------
\* the section of the validated document, PyNone when it has none
Section(key) ==
    IF IsDict(spec_data) THEN DictGet(spec_data, key, PyNone) ELSE PyNone

\* the rule entries a decision_rules value lists, whatever its encoding
RuleEntriesOf(dr) ==
    IF IsList(dr) THEN dr.items
    ELSE IF IsDict(dr) /\ HasKey(dr, "rules")
    THEN (IF IsList(DictItem(dr, "rules")) THEN DictItem(dr, "rules").items
          ELSE <<>>)
    ELSE IF IsDict(dr)
    THEN [i \in 1..Len(SelectSeq(dr.pairs, LAMBDA p : p.k # "_config")) |->
             SelectSeq(dr.pairs, LAMBDA p : p.k # "_config")[i].v]
    ELSE <<>>

HasMalformedEntry(dr) ==
    \E i \in 1..Len(RuleEntriesOf(dr)) : ~IsDict(RuleEntriesOf(dr)[i])

\* the paths of findings about decision_rules or one of its entries
DecisionRulesPaths ==
    {"decision_rules", "decision_rules.rules", "decision_rules.dict[str,any]",
     "decision_rules.list[DecisionRule]"}
        \cup {prefix \o ToString(i) :
                 prefix \in {"decision_rules.", "decision_rules.rules.",
                             "decision_rules.list[DecisionRule].",
                             "decision_rules.r", "decision_rules.rule_"},
                 i \in 0..(MaxItems + 1)}

SchemaErrorPaths ==
    {schema_result.errors[i].path : i \in 1..Len(schema_result.errors)}

\* C11: once SchemaValidator.validate has run on a document whose
\* decision_rules holds an entry that is no object, in any of the three
\* encodings, it has returned (not raised) and its result holds an error
\* finding located at decision_rules or at one of its entries
C11_MalformedReported ==
    (schema_status # "idle" /\ HasMalformedEntry(Section("decision_rules")))
        => /\ schema_status = "returned"
           /\ SchemaErrorPaths \cap DecisionRulesPaths # {}

\* the steps of the validated document
StepItems ==
    IF IsList(Section("steps")) THEN Section("steps").items ELSE <<>>

\* the outputs a step list depends on, and whether each is produced by a
\* strictly earlier step
DepsOf(step) ==
    IF IsDict(step) /\ IsList(DictGet(step, "based_on", PyNone))
    THEN {DictItem(step, "based_on").items[i] :
             i \in 1..Len(DictItem(step, "based_on").items)}
    ELSE {}

ProducedBefore(steps, k) ==
    {DictItem(steps[j], "output") :
        j \in {i \in 1..(k - 1) : IsDict(steps[i]) /\ HasKey(steps[i], "output")}}

DependenciesOrdered(steps) ==
    \A k \in 1..Len(steps) : DepsOf(steps[k]) \subseteq ProducedBefore(steps, k)

\* the steps in the order perm[1], perm[2], ..., and the document with them
ReorderedSteps(perm) == [i \in 1..Len(StepItems) |-> StepItems[perm[i]]]

Reordered(perm) == DictWith(spec_data, "steps", PyList(ReorderedSteps(perm)))

\* the document is the valid base document but for its steps
OnlyStepsVary ==
    \E v \in StepsValues :
        spec_data = Document([key |-> "steps", value |-> v], NoDefect)

\* C12: once SchemaValidator.validate has returned for a document in which
\* some step depends on an output that no strictly earlier step produces,
\* the result is invalid; and every reordering of these steps that puts each
\* producer before its uses, the rest of the document being valid, validates
C12_DependencyOrdering ==
    (schema_status = "returned" /\ StepItems # <<>>
        /\ ~DependenciesOrdered(StepItems))
        => /\ ~schema_result.valid
           /\ schema_result.errors # <<>>
           /\ (OnlyStepsVary =>
                  \A perm \in Permutations(1..Len(StepItems)) :
                      DependenciesOrdered(ReorderedSteps(perm))
                          => SchemaOutcome(Reordered(perm)).result.valid)

\* a document whose second step produces what its first step depends on has
\* been rejected, and validates with the two steps exchanged
C12_Witness ==
    /\ schema_status = "returned"
    /\ OnlyStepsVary
    /\ Len(StepItems) = 2
    /\ DepsOf(StepItems[1]) # {}
    /\ DepsOf(StepItems[1]) \subseteq ProducedBefore(StepItems, 3)
    /\ ~DependenciesOrdered(StepItems)
    /\ ~schema_result.valid
    /\ DependenciesOrdered(<<StepItems[2], StepItems[1]>>)
    /\ SchemaOutcome(Reordered(<<2, 1>>)).result.valid

\* the document is the valid base document but for its edge cases; its only
\* rule is r1
OnlyEdgeCasesVary ==
    \E v \in EdgeCasesValues :
        spec_data = Document([key |-> "edge_cases", value |-> v], NoDefect)

EdgeItems ==
    IF IsList(Section("edge_cases")) THEN Section("edge_cases").items ELSE <<>>

\* the edge cases whose covers_rule names a rule that does not exist
DanglingEdges ==
    {i \in 1..Len(EdgeItems) :
        /\ HasKey(EdgeItems[i], "covers_rule")
        /\ DictItem(EdgeItems[i], "covers_rule") # PyStr(RuleName(1))}

\* what an issue about the edge case `ec` and its unknown rule may say
DanglingMessages(ec) ==
    {prefix \o "Edge case '" \o Fmt(DictItem(ec, "case"))
        \o "' references unknown rule: " \o Fmt(DictItem(ec, "covers_rule")) :
        prefix \in {"", "Value error, "}}

IssuesAbout(ec) ==
    {i \in 1..Len(schema_result.errors) :
        schema_result.errors[i].message \in DanglingMessages(ec)}

\* C13: once SchemaValidator.validate has returned for an otherwise valid
\* document, each edge case whose covers_rule names no existing rule has
\* exactly one error about it, naming the edge case and the rule id, also
\* when several references dangle
C13_CrossReferenceSound ==
    (schema_status = "returned" /\ OnlyEdgeCasesVary)
        => \A i \in DanglingEdges :
               Cardinality(IssuesAbout(EdgeItems[i])) = 1

\* the section is missing, null or an empty list in the validated mapping
SectionDefective(section) ==
    /\ IsDict(spec_data)
    /\ \/ ~HasKey(spec_data, section)
       \/ IsNone(DictItem(spec_data, section))
       \/ DictItem(spec_data, section) = PyList(<<>>)

SchemaErrorsAt(where) ==
    {i \in 1..Len(schema_result.errors) : schema_result.errors[i].path = where}

\* C14: once SchemaValidator.validate has returned for a mapping in which one
\* of the nine required sections is missing, null or an empty list, the
\* result is invalid and holds exactly one error whose path is the section
\* name, and that error carries a suggestion; for `inputs: []` the suggestion
\* is to add at least one item
C14_RequiredSections ==
    \A k \in 1..Len(REQUIRED_SECTIONS) :
        (schema_status = "returned" /\ SectionDefective(REQUIRED_SECTIONS[k]))
            => /\ ~schema_result.valid
               /\ Cardinality(SchemaErrorsAt(REQUIRED_SECTIONS[k])) = 1
               /\ \A i \in SchemaErrorsAt(REQUIRED_SECTIONS[k]) :
                      /\ schema_result.errors[i].suggestion # NoSuggestion
                      /\ (Section("inputs") = PyList(<<>>)
                              /\ REQUIRED_SECTIONS[k] = "inputs")
                             => schema_result.errors[i].suggestion
                                    = Suggestion("Add at least one item to 'inputs'")

\* `inputs: []` has been validated: one error, at path inputs
C14_Witness ==
    /\ schema_status = "returned"
    /\ IsDict(spec_data)
    /\ Section("inputs") = PyList(<<>>)
    /\ ~schema_result.valid
    /\ Len(schema_result.errors) = 1
    /\ schema_result.errors[1].path = "inputs"

\* an earlier check of validate fails: a required section other than
\* output_contract is missing, null or empty, or spec_version is missing
EarlierCheckFails ==
    /\ IsDict(spec_data)
    /\ \/ ~HasKey(spec_data, "spec_version")
       \/ \E k \in 1..Len(REQUIRED_SECTIONS) :
              /\ REQUIRED_SECTIONS[k] # "output_contract"
              /\ SectionDefective(REQUIRED_SECTIONS[k])

\* output_contract violates its typed model: it is no object, or its schema
\* is missing or no object
OutputContractViolates ==
    Section("output_contract") \in
        {PyStr("oops"), PyDict(<<JsonFormat>>),
         PyDict(<<JsonFormat, Pair("schema", PyStr("oops"))>>)}

\* C15: once SchemaValidator.validate has returned for a document that fails
\* an earlier check (a required section or spec_version) and whose
\* output_contract violates the typed model, the result holds a finding for
\* the earlier failure and a finding for output_contract
C15_CollectsAll ==
    (schema_status = "returned" /\ EarlierCheckFails /\ OutputContractViolates)
        => /\ SchemaErrorPaths \ {"output_contract", "output_contract.schema"} # {}
           /\ SchemaErrorPaths \cap {"output_contract", "output_contract.schema"} # {}

\* the valid base document with its spec_version replaced by `version`
WithVersion(version) ==
    Document([key |-> "output_contract", value |-> BaseValue("output_contract")],
             [key |-> "spec_version", value |-> <<version>>])

\* every version string some part of the program recognizes
RecognizedVersions == {"skill-spec/1.0", "skill-spec/1.1", "skill-spec/1.2"}

SchemaWarningPaths ==
    {schema_result.warnings[i].path : i \in 1..Len(schema_result.warnings)}

\* C16: once SchemaValidator.validate has run on an otherwise valid document
\* whose spec_version is a string that is no recognized version, it has
\* returned valid = true with a warning at path spec_version and no error
\* at that path
C16_UnknownVersionWarns ==
    (/\ schema_status # "idle"
     /\ IsStr(Section("spec_version"))
     /\ Section("spec_version").s \notin RecognizedVersions
     /\ spec_data = WithVersion(Section("spec_version")))
        => /\ schema_status = "returned"
           /\ schema_result.valid
           /\ "spec_version" \in SchemaWarningPaths
           /\ "spec_version" \notin SchemaErrorPaths

\* the recorded violations of one severity, of one category
ViolationsOfSeverity(severity) ==
    {i \in 1..Len(quality_result.violations) :
        quality_result.violations[i].severity = severity}

ViolationsOfCategory(category) ==
    {i \in 1..Len(quality_result.violations) :
        quality_result.violations[i].category = category}

\* valid and the counters agree with the findings the results hold
FindingsTracked ==
    /\ schema_result.valid <=> schema_result.errors = <<>>
    /\ quality_result.valid <=> ViolationsOfSeverity("error") = {}
    /\ quality_result.total_errors = Cardinality(ViolationsOfSeverity("error"))
    /\ quality_result.total_warnings = Cardinality(ViolationsOfSeverity("warning"))
    /\ quality_result.total_info = Cardinality(ViolationsOfSeverity("info"))
    /\ DOMAIN quality_result.category_counts =
           {quality_result.violations[i].category :
               i \in 1..Len(quality_result.violations)}
    /\ \A c \in DOMAIN quality_result.category_counts :
           quality_result.category_counts[c] = Cardinality(ViolationsOfCategory(c))

IsPrefix(old, new) == Len(old) <= Len(new) /\ SubSeq(new, 1, Len(old)) = old

\* a step keeps every finding recorded so far, records exactly one more, and
\* leaves valid alone unless the new finding is an error
FindingKept ==
    /\ IsPrefix(schema_result.errors, schema_result'.errors)
    /\ IsPrefix(schema_result.warnings, schema_result'.warnings)
    /\ IsPrefix(quality_result.violations, quality_result'.violations)
    /\ Len(schema_result'.errors) + Len(schema_result'.warnings)
           + Len(quality_result'.violations)
         = Len(schema_result.errors) + Len(schema_result.warnings)
               + Len(quality_result.violations) + 1
    /\ schema_result'.errors = schema_result.errors
           => schema_result'.valid = schema_result.valid
    /\ (\A i \in 1..Len(quality_result'.violations) :
            i > Len(quality_result.violations)
                => quality_result'.violations[i].severity # "error")
           => quality_result'.valid = quality_result.valid

\* C17: through any sequence of add_error, add_warning and add_violation on
\* results created valid, a result is invalid exactly when it holds an
\* error-severity finding, warning and info findings are kept without
\* flipping valid, and total_errors, total_warnings, total_info and
\* category_counts are the numbers of recorded findings of each severity
\* and category
C17_ValidityTracksErrors == []FindingsTracked /\ [][FindingKept]_vars

\* warnings and an info are recorded in results that stayed valid until an
\* error violation arrived
C17_Witness ==
    /\ schema_result.warnings # <<>>
    /\ schema_result.valid
    /\ ViolationsOfSeverity("warning") # {}
    /\ ViolationsOfSeverity("info") # {}
    /\ ViolationsOfSeverity("error") # {}
    /\ ~quality_result.valid
    /\ quality_result.total_errors = 1

\* the rule entries of the validated document, all of them objects
RuleItems == RuleEntriesOf(Section("decision_rules"))

RuleCategories == {"MISSING_CONDITION", "EMPTY_CONDITION", "MISSING_ACTION"}

\* whether the semantic check owes the rule a violation of the category
Owes(rule, category) ==
    CASE category = "MISSING_CONDITION" ->
             IsNone(DictGet(rule, "when", PyNone))
      [] category = "EMPTY_CONDITION" ->
             /\ HasKey(rule, "when")
             /\ IsStr(DictItem(rule, "when"))
             /\ IsBlank(DictItem(rule, "when"))
      [] category = "MISSING_ACTION" ->
             IsNone(DictGet(rule, "then", PyNone))

\* the document is the valid base document but for its decision_rules
OnlyRulesVary ==
    \E v \in DecisionRulesValues :
        spec_data = Document([key |-> "decision_rules", value |-> v], NoDefect)

\* C18: once QualityValidator.validate has run on an otherwise valid document
\* whose decision_rules lists rule objects in any of the three encodings, it has
\* returned, and for each of MISSING_CONDITION, EMPTY_CONDITION and
\* MISSING_ACTION the result holds as many error violations of the category
\* as there are rules lacking `when`, having a blank `when`, lacking `then`
C18_RulesChecked ==
    (/\ quality_status # "idle"
     /\ OnlyRulesVary
     /\ ~HasMalformedEntry(Section("decision_rules")))
        => /\ quality_status = "returned"
           /\ \A c \in RuleCategories :
                  Cardinality({i \in ViolationsOfCategory(c) :
                                  quality_result.violations[i].severity = "error"})
                      = Cardinality({i \in 1..Len(RuleItems) : Owes(RuleItems[i], c)})

\* the document is no mapping, its output_contract is null or no object, or
\* its decision_rules is a list holding an entry that is no object
MalformedDocument ==
    \/ ~IsDict(spec_data)
    \/ HasKey(spec_data, "output_contract") /\ ~IsDict(Section("output_contract"))
    \/ IsList(Section("decision_rules"))
           /\ HasMalformedEntry(Section("decision_rules"))

\* C19: SchemaValidator.validate and QualityValidator.validate never raise,
\* whatever the parsed document, and a result returned for a malformed
\* document holds an error entry
C19_ExceptionIsolated ==
    /\ schema_status \in {"idle", "returned"}
    /\ quality_status \in {"idle", "returned"}
    /\ (schema_status = "returned" /\ MalformedDocument)
           => ~schema_result.valid /\ schema_result.errors # <<>>
    /\ (quality_status = "returned" /\ MalformedDocument)
           => ~quality_result.valid /\ ViolationsOfSeverity("error") # {}

\* the occurrence of a pattern a report owes: for a literal pattern the
\* characters of the text itself at the first offset where the text reads as
\* the pattern, case aside; for a regex what the search matches
OriginalCasedMatch(p, text) ==
    IF p.is_regex THEN re_search(p.pattern, text)
    ELSE LET hits == {i \in 0..Len(text) :
                         /\ i + Len(p.pattern) <= Len(text)
                         /\ \A k \in 1..Len(p.pattern) :
                                FoldChar(text[i + k]) = FoldChar(p.pattern[k])}
         IN  IF hits = {} THEN NoMatch
             ELSE <<PySlice(text, SetMin(hits), SetMin(hits) + Len(p.pattern))>>

\* the path and the text of the k-th step's action
ActionPath(k) == "steps[" \o ToString(k - 1) \o "].action"

ActionText(k) == TextOf(DictItem(StepItems[k], "action"))

ViolationsAt(where, pattern) ==
    {i \in 1..Len(quality_result.violations) :
        /\ quality_result.violations[i].path = where
        /\ quality_result.violations[i].pattern = pattern}

\* the violations recorded for a field, as <<category, severity>> pairs
FindingsAt(where) ==
    {<<quality_result.violations[i].category,
       quality_result.violations[i].severity>> :
        i \in {j \in 1..Len(quality_result.violations) :
                  quality_result.violations[j].path = where}}

\* C20: once QualityValidator.validate has returned, each step action and
\* each default pattern have exactly one violation when the pattern occurs
\* in the action's stripped text, case aside, and none otherwise; the
\* violation carries the matched substring in the text's own casing and the
\* pattern's category and severity; and the action "Try to validate the input
\* as needed" has exactly the two error violations VAGUE_ACTION and
\* VAGUE_CONDITION
C20_PatternScan ==
    quality_status = "returned"
        => \A k \in 1..Len(StepItems) :
               /\ \A n \in 1..Len(get_default_patterns) :
                      LET p == get_default_patterns[n]
                          owed == OriginalCasedMatch(p, preprocess_text(ActionText(k)))
                          found == ViolationsAt(ActionPath(k), p.pattern)
                      IN  IF owed = NoMatch THEN found = {}
                          ELSE /\ Cardinality(found) = 1
                               /\ \A i \in found :
                                      /\ quality_result.violations[i].matched_text
                                             = owed[1]
                                      /\ quality_result.violations[i].category
                                             = p.category
                                      /\ quality_result.violations[i].severity
                                             = p.severity
               /\ ActionText(k) = TextTryTo
                      => FindingsAt(ActionPath(k))
                             = {<<"VAGUE_ACTION", "error">>,
                                <<"VAGUE_CONDITION", "error">>}

\* ------------------------------------------------------------------------
\* Consistency claims
\* ------------------------------------------------------------------------
\* the words of a text: its maximal runs of characters that are no
\* whitespace, in order
Words(s) ==
    LET c == Chars(s)
        starts == {i \in 1..Len(c) :
                      ~IsSpace(c[i]) /\ (i = 1 \/ IsSpace(c[i - 1]))}
        StartOf(n) == CHOOSE i \in starts :
                          Cardinality({j \in starts : j < i}) = n - 1
        EndOf(i) == SetMax({j \in i..Len(c) : \A k \in i..j : ~IsSpace(c[k])})
    IN  [n \in 1..Cardinality(starts) |-> SubSeq(c, StartOf(n), EndOf(StartOf(n)))]

\* the Generated blocks of the checked document
CheckedBlocks == get_generated_blocks(parse_skill_md(actual_content))

\* the Generated blocks that differ from the fresh rendering in more than
\* whitespace
Mismatching ==
    {i \in 1..Len(CheckedBlocks) :
        Words(CheckedBlocks[i].content) # Words(spec_yaml.text)}

\* the checked document without its Manual and Unmarked content: its
\* Generated blocks, each in its marker pair
GeneratedOnly ==
    LET from[i \in 0..Len(CheckedBlocks)] ==
            IF i = 0 THEN <<>>
            ELSE from[i - 1] \o <<<<GENERATED_START>>, CheckedBlocks[i].content,
                                   <<GENERATED_END>>>>
    IN  JoinLines(from[Len(CheckedBlocks)])

\* C21: a check that ran is valid exactly when every Generated block of the
\* document has the words of the fresh rendering, counts the Generated
\* blocks, holds one inconsistency per mismatching block, and is the result
\* of the document that holds the same Generated blocks and no Manual or
\* Unmarked content.
C21_GeneratedFidelity ==
    check_path = "checked" =>
        /\ consistency_result.valid <=> Mismatching = {}
        /\ consistency_result.blocks_checked = Len(CheckedBlocks)
        /\ Len(consistency_result.inconsistencies) = Cardinality(Mismatching)
        /\ validate_document_consistency(GeneratedOnly, spec_yaml.text)
               = consistency_result

\* a checked document with a Manual block and two Generated blocks, one
\* that differs from the rendering in whitespace only and one that
\* mismatches
C21_Witness ==
    /\ check_path = "checked"
    /\ Len(CheckedBlocks) = 2
    /\ Cardinality(Mismatching) = 1
    /\ \E i \in 1..2 : /\ i \notin Mismatching
                       /\ CheckedBlocks[i].content # spec_yaml.text
    /\ get_manual_blocks(parse_skill_md(actual_content)) # <<>>

\* C25: a SKILL.md that generate wrote by wrapping or by a merge without
\* --force passes check-consistency against the same spec.yaml
C25_GenerateThenCheck ==
    (/\ path \in {"new_wrapped", "merge"}
     /\ ~opts.force
     /\ check_path = "checked"
     /\ actual_content = skill_md.text)
        => /\ consistency_result.valid
           /\ check_exit_code = 0

\* ------------------------------------------------------------------------
\* Shape of a merge
\* ------------------------------------------------------------------------
\* the previous document holds a start marker
HadMarkers ==
    \/ Contains(existing_content.text, GENERATED_START)
    \/ Contains(existing_content.text, MANUAL_START)

\* the blocks the merged text parses into, the blank lines between them
\* aside, as <<kind, content without surrounding whitespace>>
MergedShape ==
    LET blocks == parse_skill_md(preservation_result.merged_content).blocks
        shown == SelectSeq(blocks,
                     LAMBDA b : ~(b.block_type = UNMARKED /\ Strip(b.content) = <<>>))
    IN  [i \in 1..Len(shown) |-> <<shown[i].block_type, Strip(shown[i].content)>>]

\* the shape of the claim: the front matter of the fresh content, if it has
\* one, unwrapped; one Generated block with the rest of it; the Manual
\* blocks of the previous document in their order
ClaimedShape ==
    LET g == spec_yaml.text
        e == FrontmatterEnd(g)
        old == ManualContents(existing_content.text)
    IN  (IF e > 0 THEN <<<<UNMARKED, Strip(Slice(g, 1, e))>>>> ELSE <<>>)
            \o <<<<GENERATED, Strip(Slice(g, e + 1, Len(g)))>>>>
            \o [i \in 1..Len(old) |-> <<MANUAL, Strip(old[i])>>]

\* C24: after a merge without force against a previous document with
\* markers, the merged text parses into the fresh content's front matter
\* (if any) as unmarked text, then exactly one Generated block holding the
\* rest of the fresh content, then the previous document's Manual blocks in
\* order and nothing else, and generated_blocks_updated is 1
C24_MergeShape ==
    (MergedNoForce /\ HadMarkers) =>
        /\ MergedShape = ClaimedShape
        /\ preservation_result.generated_blocks_updated = 1

\* ------------------------------------------------------------------------
\* Parser claims
\* ------------------------------------------------------------------------
\* a line that holds a marker
IsMarkerLine(line) == \E m \in Markers : Contains(line, m)

\* the state a line leaves open according to the claim: the kind of the last
\* start marker on it, Unmarked after an end marker, unchanged otherwise
StateAfter(line, open) ==
    IF ~IsMarkerLine(line) THEN open
    ELSE LET last == line[SetMax({k \in 1..Len(line) : line[k] \in Markers})]
         IN  CASE last = GENERATED_START -> GENERATED
               [] last = MANUAL_START -> MANUAL
               [] OTHER -> UNMARKED

\* the block the accumulated lines make, tagged with the open state
Accumulated ==
    [block_type |-> parser.current_block_type,
     content |-> JoinLines(parser.current_block_lines)]

\* blocks is now what it was, with the accumulated lines (if any, or in any
\* case when always is true) as one more block
Flushed(always) ==
    \/ /\ parser.current_block_lines = <<>>
       /\ ~always
       /\ parser'.blocks = parser.blocks
    \/ /\ Len(parser'.blocks) = Len(parser.blocks) + 1
       /\ SubSeq(parser'.blocks, 1, Len(parser.blocks)) = parser.blocks
       /\ LET b == parser'.blocks[Len(parser'.blocks)]
          IN  [block_type |-> b.block_type, content |-> b.content] = Accumulated
       /\ parser.current_block_lines # <<>> \/ always

\* one line scanned as the claim describes
LineScanned ==
    LET line == parser.lines[parser.i + 1]
    IN  /\ parser'.current_block_type
               = StateAfter(line, parser.current_block_type)
        /\ IF IsMarkerLine(line)
           THEN /\ parser'.current_block_lines = <<>>
                /\ \/ Flushed(FALSE)
                   \/ Flushed(TRUE) /\ parser'.current_block_type = UNMARKED
           ELSE /\ parser'.current_block_lines
                       = Append(parser.current_block_lines, line)
                /\ parser'.blocks = parser.blocks

\* the scan starts Unmarked, and no block nor the accumulation holds a marker
ScanSound ==
    parser.pc \in {"loop", "returned"} /\ parser.has_markers =>
        /\ parser.i = 0 => parser.current_block_type = UNMARKED
        /\ \A k \in 1..Len(parser.blocks) :
               \A m \in Markers : ~Contains(parser.blocks[k].content, m)
        /\ \A k \in 1..Len(parser.current_block_lines) :
               ~IsMarkerLine(parser.current_block_lines[k])

\* C23: scanning a document with markers, the state starts Unmarked, is
\* Generated/Manual after a start marker and Unmarked after an end marker;
\* a line without marker joins the accumulation and nothing else, a marker
\* line joins nothing and closes the accumulation into one block tagged
\* with the state that was open, and the end of input closes what remains
C23_ParserStateMachine ==
    /\ []ScanSound
    /\ [][/\ (parser.pc = "loop" /\ parser'.pc = "loop") => LineScanned
          /\ (parser.pc = "loop" /\ parser'.pc = "returned") => Flushed(FALSE)]_vars


RECURSIVE KeptFenced(_, _)
KeptFenced(text, i) ==
    IF i >= Len(text) THEN <<>>
    ELSE LET Fence(k) == OccursAt(text, <<BACKTICK, BACKTICK, BACKTICK>>, k)
             closes == {h \in (i + 3)..Len(text) : Fence(h)}
         IN  IF Fence(i) /\ closes # {} THEN KeptFenced(text, SetMin(closes) + 3)
             ELSE <<i + 1>> \o KeptFenced(text, i + 1)

\* likewise for the inline-code regex
RECURSIVE KeptInline(_, _)
KeptInline(text, i) ==
    IF i >= Len(text) THEN <<>>
    ELSE LET closes == {h \in (i + 3)..Len(text) :
                           /\ text[h] = BACKTICK
                           /\ \A m \in (i + 2)..(h - 1) : text[m] # BACKTICK}
         IN  IF text[i + 1] = BACKTICK /\ closes # {}
             THEN KeptInline(text, SetMin(closes))
             ELSE <<i + 1>> \o KeptInline(text, i + 1)

\* the offsets of a field's text outside its code spans: what is left after
\* the fenced spans, and of that what is left after the inline spans
Outside(text) ==
    LET fenced == KeptFenced(text, 0)
        inline == KeptInline([n \in 1..Len(fenced) |-> text[fenced[n]]], 0)
    IN  {fenced[inline[n]] : n \in 1..Len(inline)}

\* the stretches of the text between its code spans
OutsideSegments(text) ==
    {SubSeq(text, lo, hi) : <<lo, hi>> \in
        {r \in (1..Len(text)) \X (1..Len(text)) :
            /\ r[1] <= r[2]
            /\ \A m \in r[1]..r[2] : m \in Outside(text)
            /\ r[1] - 1 \notin Outside(text)
            /\ r[2] + 1 \notin Outside(text)}}

\* C26: stripping code spans only removes findings: once
\* QualityValidator.validate has returned, a default pattern is reported for
\* a step's action only if it occurs in the action's original text outside
\* the fenced and inline code spans, that is within one stretch between
\* them; text that matches only inside a span, or only across the place a
\* span was removed from, is not reported.
C26_StrippingOnlyRemoves ==
    quality_status = "returned"
        => \A k \in 1..Len(StepItems) :
               \A n \in 1..Len(get_default_patterns) :
                   LET p == get_default_patterns[n]
                   IN  ViolationsAt(ActionPath(k), p.pattern) # {}
                           => \E segment \in OutsideSegments(ActionText(k)) :
                                  match(p, segment) # NoMatch

\* ------------------------------------------------------------------------
\* Field selection
\* ------------------------------------------------------------------------
\* the paths of the string leaves of a tree
RECURSIVE Leaves(_, _)
Leaves(data, at) ==
    IF IsStr(data) THEN {at}
    ELSE IF IsDict(data)
    THEN UNION {Leaves(data.pairs[i].v,
                       IF at = <<>> THEN KeyTokens(data.pairs[i].k)
                       ELSE at \o <<".">> \o KeyTokens(data.pairs[i].k)) :
                   i \in 1..Len(data.pairs)}
    ELSE IF IsList(data)
    THEN UNION {Leaves(data.items[i], at \o <<"[", ToString(i - 1), "]">>) :
                   i \in 1..Len(data.items)}
    ELSE {}

\* the glob read as the claim reads it: a literal token matches itself only,
\* [*] one list index
RECURSIVE LiteralMatch(_, _)
LiteralMatch(glob, at) ==
    IF glob = <<>> THEN at = <<>>
    ELSE IF Head(glob) = STAR
    THEN /\ Len(at) >= 3
         /\ at[1] = "[" /\ at[2] \in {ToString(n) : n \in 0..9}
         /\ at[3] = "]"
         /\ LiteralMatch(Tail(glob), SubSeq(at, 4, Len(at)))
    ELSE /\ Len(at) >= 1
         /\ at[1] = Head(glob)
         /\ LiteralMatch(Tail(glob), Tail(at))

\* the leaves the claim selects: not under an ignored path, and matching a
\* glob if there are globs
Selected(scope, tree) ==
    {PathStr(at) : at \in
        {leaf \in Leaves(tree, <<>>) :
            /\ \A n \in 1..Len(leaf) :
                   PathStr(SubSeq(leaf, 1, n)) \notin scope.ignored_fields
            /\ \/ scope.scanned_fields = <<>>
               \/ \E k \in 1..Len(scope.scanned_fields) :
                      LiteralMatch(scope.scanned_fields[k], leaf)}}

\* where a call reported "try to"
ReportedAt(run) ==
    LET hits == SelectSeq(run.findings,
                          LAMBDA v : v.pattern = <<"t", "r", "y", " ", "t", "o">>)
    IN  [n \in 1..Len(hits) |-> hits[n].path]

\* C27: field selection: a string leaf is scanned exactly if its path is not
\* excluded by ignored_fields and matches a glob of scanned_fields, a literal
\* segment of the glob matching itself only and [*] one list index (every
\* string leaf that is not ignored when there are no globs), and it is
\* scanned once: in a tree whose strings all say "try to", QualityValidator
\* reports "try to" once at each such path and nowhere else.
C27_FieldSelection ==
    \A i \in 1..Len(runs) :
        runs[i].validator = "quality" /\ runs[i].raised = ""
            => LET reported == ReportedAt(runs[i])
                   scope == scan_scope(validators[runs[i].instance], files)
               IN  /\ {reported[n] : n \in 1..Len(reported)}
                          = Selected(scope, spec_data)
                   /\ \A m, n \in 1..Len(reported) :
                          reported[m] = reported[n] => m = n

\* ------------------------------------------------------------------------
\* Rule ids for coverage
\* ------------------------------------------------------------------------
\* the ids the normalizer gives the rules of a decision_rules value
NormalizedIds(dr) ==
    LET rules == DictItem(extract_rules(dr), "rules").items
    IN  {DictItem(rules[i], "id") : i \in {j \in 1..Len(rules) : IsDict(rules[j])}}

\* C28: covers_rule is resolved against the ids the normalizer produces for
\* the same decision_rules value, in the list, the canonical and the keyed
\* encoding: once SchemaValidator.validate has returned for an otherwise
\* valid document whose edge case names a rule, the document is valid exactly
\* if the name is an explicit id, the auto-generated rule_<i> of a rule without
\* id, or the key of a keyed rule without id.
C28_CoverageIds ==
    (schema_status = "returned" /\ spec_data \in CoverageDocSet)
        => (schema_result.valid
                <=> DictItem(EdgeItems[1], "covers_rule")
                        \in NormalizedIds(Section("decision_rules")))

\* ------------------------------------------------------------------------
\* Inserting a manual section
\* ------------------------------------------------------------------------
\* C29: insert_manual_section damages no human-owned content: whatever the
\* document, the manual content m and after_section (absent, a heading of
\* the document, or none of its headings), the result parses into the Manual
\* blocks of the original document, each with its content unchanged, and
\* exactly one more Manual block, whose content is m trimmed; also when the
\* insertion point lies inside a Manual or a Generated block.
C29_InsertPreservesManual ==
    insertion.pc = "returned"
        => LET before == ManualContents(insertion.content)
               after == ManualContents(insertion.result)
           IN  /\ Len(after) = Len(before) + 1
               /\ \E p \in 1..Len(after) :
                      /\ after[p] = Strip(insertion.manual_content)
                      /\ SubSeq(after, 1, p - 1) \o SubSeq(after, p + 1, Len(after))
                             = before

\* ------------------------------------------------------------------------
\* Lifecycle
\* ------------------------------------------------------------------------
\* a command has run: the day is the same and something has changed
CommandRan == today' = today

Refused == command'.exit_code # 0

=========================================================================
